---------------------------- MODULE Spec2Model ----------------------------
(***************************************************************************)
(* A model of pcbasic/basic/values/numbers.py: the 16-bit Integer and the  *)
(* Microsoft-Binary-Format Single/Double values of PC-BASIC.               *)
(*                                                                         *)
(* A value is its class name and its _buffer, a little-endian sequence of  *)
(* bytes.  The state is one receiver value together with a record of the   *)
(* last method called on it: the right-hand operand, the bytes the         *)
(* receiver held before the call, the exception the call raised (if any)   *)
(* with the value that exception carries, and what the call returned.      *)
(***************************************************************************)
EXTENDS Integers, Sequences, FiniteSets, TLC

VARIABLES
    kind,     \* class of the receiver: "Integer", "Single" or "Double"
    buf,      \* the receiver's _buffer
    op,       \* name of the last method called on the receiver
    rhs,      \* right-hand operand of the last call, [kind, buf], or NoValue
    arg,      \* integer argument of the last call (0 when it has none)
    pre,      \* the receiver's _buffer before the last call
    signal,   \* exception raised by the last call, "none" when it returned
    carried,  \* value carried by the exception, [kind, buf], or NoValue
    result,   \* what the last call returned: "self", "None", "buffer" (the
              \* receiver's memoryview), "new" (another object), "True",
              \* "False", or "raised"
    object,   \* the value of the object returned when result = "new"
    steps,    \* number of calls made so far
    lists,    \* the list objects of the audio plugin: each maps a voice to
              \* its buffer of samples
    samples,  \* self._samples: the list object the attribute refers to
    made,     \* per voice, the number of samples generated so far
    played,   \* per voice, the samples the callback has played
    work,     \* the main thread's position in _work and its locals
    callback  \* the PortAudio thread's position in _get_next_chunk and its
              \* locals

\* the state of the audio plugin and of its two threads
audioVars == <<lists, samples, made, played, work, callback>>

vars ==
    <<kind, buf, op, rhs, arg, pre, signal, carried, result, object, steps,
      lists, samples, made, played, work, callback>>

\* no audio plugin is running beside the numbers
NoAudio ==
    /\ lists = <<>>
    /\ samples = 0
    /\ made = <<>>
    /\ played = <<>>
    /\ work = "none"
    /\ callback = "none"

(***************************************************************************)
(* Bounds of the model.                                                    *)
(***************************************************************************)
\* calls made on one receiver
MaxSteps == 2
\* Integer operands lie within IntEdge of -32768, of 0 and of 32767
IntEdge == 3
\* ... and within IntNear of 0
IntNear == 8

NoValue == [kind |-> "none", buf |-> <<>>]
Val(k, b) == [kind |-> k, buf |-> b]

\* outcome of a method: the receiver's bytes afterwards, the exception raised
\* with the value it carries, and the returned object
Return(b, r) ==
    [buf |-> b, sig |-> "none", val |-> NoValue, ret |-> r, obj |-> NoValue]
ReturnNew(b, v) ==
    [buf |-> b, sig |-> "none", val |-> NoValue, ret |-> "new", obj |-> v]
Raise(b, s, v) ==
    [buf |-> b, sig |-> s, val |-> v, ret |-> "raised", obj |-> NoValue]

(***************************************************************************)
(* Python integer arithmetic.                                              *)
(***************************************************************************)
Abs(n) == IF n < 0 THEN -n ELSE n

\* a // b for b # 0: the quotient rounded to minus infinity
PyFloorDiv(a, b) == IF b > 0 THEN a \div b ELSE (-a) \div (-b)

\* a % b for b # 0: the remainder has the sign of the divisor
PyMod(a, b) == a - b * PyFloorDiv(a, b)

\* b & m for a byte b and a mask m of the form 2^k - 1 ... or its complement
ByteAnd7f(b) == b % 128
ByteXorFf(b) == 255 - b
ByteXor80(b) == IF b >= 128 THEN b - 128 ELSE b + 128

(***************************************************************************)
(* class Single / class Double: constants.                                 *)
(***************************************************************************)
Size(t) == IF t = "Single" THEN 4 ELSE IF t = "Double" THEN 8 ELSE 2

Zeroes(n) == [i \in 1..n |-> 0]

pos_max(t) == [i \in 1..Size(t) |-> IF i = Size(t) - 1 THEN 127 ELSE 255]
neg_max(t) == [i \in 1..Size(t) |-> 255]

(***************************************************************************)
(* Python's unbounded non-negative ints, as little-endian byte sequences   *)
(* without high zero bytes (0 is <<>>): the mantissas of the float engine  *)
(* are wider than the integers of the model checker.                       *)
(***************************************************************************)
Pow2(k) == 2 ^ k

RECURSIVE BNorm(_)
BNorm(s) ==
    IF s = <<>> THEN s
    ELSE IF s[Len(s)] = 0 THEN BNorm(SubSeq(s, 1, Len(s) - 1))
    ELSE s

\* byte i (from 1) of a
BByte(a, i) == IF i >= 1 /\ i <= Len(a) THEN a[i] ELSE 0

\* bit i (from 0) of a
BBit(a, i) == (BByte(a, (i \div 8) + 1) \div Pow2(i % 8)) % 2

RECURSIVE BFromNat(_)
BFromNat(n) == IF n = 0 THEN <<>> ELSE <<n % 256>> \o BFromNat(n \div 256)

RECURSIVE BAddC(_, _, _, _)
BAddC(a, b, i, c) ==
    IF i > Len(a) /\ i > Len(b)
    THEN IF c = 0 THEN <<>> ELSE <<c>>
    ELSE LET s == BByte(a, i) + BByte(b, i) + c
         IN  <<s % 256>> \o BAddC(a, b, i + 1, s \div 256)

\* a + b
BAdd(a, b) == BAddC(a, b, 1, 0)

RECURSIVE BSubC(_, _, _, _)
BSubC(a, b, i, c) ==
    IF i > Len(a)
    THEN <<>>
    ELSE LET d == BByte(a, i) - BByte(b, i) - c
         IN  IF d < 0 THEN <<d + 256>> \o BSubC(a, b, i + 1, 1)
                      ELSE <<d>> \o BSubC(a, b, i + 1, 0)

\* a - b, for a >= b
BSub(a, b) == BNorm(BSubC(a, b, 1, 0))

RECURSIVE BGtFrom(_, _, _)
BGtFrom(a, b, i) ==
    IF i = 0 THEN FALSE
    ELSE IF a[i] # b[i] THEN a[i] > b[i]
    ELSE BGtFrom(a, b, i - 1)

\* a > b
BGt(a, b) ==
    IF Len(a) # Len(b) THEN Len(a) > Len(b) ELSE BGtFrom(a, b, Len(a))

BLt(a, b) == BGt(b, a)
BGe(a, b) == ~BGt(b, a)
BLe(a, b) == ~BGt(a, b)

\* a << k
BShl(a, k) ==
    LET q == k \div 8
        r == k % 8
        n == Len(a) + 1
    IN  IF a = <<>> THEN <<>>
        ELSE BNorm([i \in 1..q |-> 0] \o
                   [i \in 1..n |-> ((BByte(a, i) * Pow2(r)) % 256)
                                   + ((BByte(a, i - 1) * Pow2(r)) \div 256)])

\* a >> k
BShr(a, k) ==
    LET q == k \div 8
        r == k % 8
        n == Len(a) - q
    IN  IF n <= 0 THEN <<>>
        ELSE BNorm([i \in 1..n |-> (BByte(a, i + q) \div Pow2(r))
                                   + ((BByte(a, i + q + 1) % Pow2(r)) * Pow2(8 - r))])

\* a & ((1 << k) - 1)
BLow(a, k) ==
    LET q == k \div 8
        r == k % 8
    IN  BNorm([i \in 1..(q + 1) |-> IF i <= q THEN BByte(a, i)
                                    ELSE BByte(a, i) % Pow2(r)])

RECURSIVE BColumn(_, _, _, _)
BColumn(a, b, k, i) ==
    IF i > Len(a) \/ i > k THEN 0
    ELSE (IF k + 1 - i <= Len(b) THEN a[i] * b[k + 1 - i] ELSE 0)
         + BColumn(a, b, k, i + 1)

RECURSIVE BMulC(_, _, _, _)
BMulC(a, b, k, c) ==
    IF k > Len(a) + Len(b) - 1
    THEN BFromNat(c)
    ELSE LET s == BColumn(a, b, k, 1) + c
         IN  <<s % 256>> \o BMulC(a, b, k + 1, s \div 256)

\* a * b
BMul(a, b) == IF a = <<>> \/ b = <<>> THEN <<>> ELSE BNorm(BMulC(a, b, 1, 0))

\* a with bit i (from 0) cleared, and with bit 0 set
BClearBit(a, i) ==
    IF BBit(a, i) = 0 THEN a
    ELSE BNorm([a EXCEPT ![(i \div 8) + 1] = @ - Pow2(i % 8)])

BSetBit0(a) ==
    IF a = <<>> THEN <<1>>
    ELSE IF a[1] % 2 = 1 THEN a
    ELSE [a EXCEPT ![1] = @ + 1]

\* a with its low byte cleared, and a cut to its low n bytes
BClearLow(a) == IF a = <<>> THEN a ELSE BNorm([a EXCEPT ![1] = 0])

BCut(a, n) == IF Len(a) <= n THEN a ELSE BNorm(SubSeq(a, 1, n))

(***************************************************************************)
(* class Integer.                                                          *)
(***************************************************************************)
Integer_is_zero(b) == b = <<0, 0>>

Integer_is_negative(b) == b[2] >= 128

\* struct.unpack('<H') and struct.unpack('<h')
Integer_to_int(b, unsigned) ==
    LET u == b[1] + 256 * b[2]
    IN  IF unsigned \/ u < 32768 THEN u ELSE u - 65536

\* struct.pack_into of an int in the format's range
PackInt16(v) ==
    LET u == IF v < 0 THEN v + 65536 ELSE v
    IN  <<u % 256, u \div 256>>

Integer_from_int(b, in_int, unsigned) ==
    LET v      == IF unsigned /\ in_int < 0 THEN in_int + 65536 ELSE in_int
        maxint == IF unsigned THEN 65535 ELSE 32767
    IN  IF ~(-32768 <= v /\ v <= maxint)
        THEN Raise(b, "Overflow", NoValue)
        ELSE IF unsigned /\ v < 0
        THEN Raise(b, "struct.error", NoValue)
        ELSE Return(PackInt16(v), "self")

\* C6 mutant: the carry out of the low byte is dropped
Integer_ineg_NoCarry(b) ==
    IF b = <<0, 128>>
    THEN Raise(b, "Overflow", NoValue)
    ELSE Return(<<(ByteXorFf(b[1]) + 1) % 256, ByteXorFf(b[2])>>, "self")

Integer_ineg(b) ==
    IF b = <<0, 128>>
    THEN Raise(b, "Overflow", NoValue)
    ELSE LET lsb0  == ByteXorFf(b[1]) + 1
             msb0  == ByteXorFf(b[2])
             carry == lsb0 > 255
             lsb   == IF carry THEN lsb0 - 256 ELSE lsb0
             msb   == IF carry THEN msb0 + 1 ELSE msb0
         IN  Return(<<lsb, msb % 256>>, "self")

Integer_iabs(b) ==
    IF b[2] >= 128
    THEN Integer_ineg(b)
    ELSE Return(b, "None")

\* C28 mutant: the sum is stored before the overflow test
Integer_iadd_StoreFirst(b, r) ==
    LET lsb0  == b[1] + r[1]
        msb0  == b[2] + r[2]
        carry == lsb0 > 255
        lsb   == IF carry THEN lsb0 - 256 ELSE lsb0
        msb   == IF carry THEN msb0 + 1 ELSE msb0
    IN  IF ((b[2] > 127) = (r[2] > 127)) /\ ((r[2] > 127) # (msb > 127))
        THEN Raise(<<lsb, msb % 256>>, "Overflow", NoValue)
        ELSE Return(<<lsb, msb % 256>>, "self")

Integer_iadd(b, r) ==
    LET lsb0  == b[1] + r[1]
        msb0  == b[2] + r[2]
        carry == lsb0 > 255
        lsb   == IF carry THEN lsb0 - 256 ELSE lsb0
        msb   == IF carry THEN msb0 + 1 ELSE msb0
    IN  \* (a == b != c) is (a == b) and (b != c)
        IF ((b[2] > 127) = (r[2] > 127)) /\ ((r[2] > 127) # (msb > 127))
        THEN Raise(b, "Overflow", NoValue)
        ELSE Return(<<lsb, msb % 256>>, "self")

\* self.iadd(rhs.clone().ineg()): the negation works on a copy of rhs
Integer_isub(b, r) ==
    LET n == Integer_ineg(r)
    IN  IF n.sig # "none"
        THEN Raise(b, n.sig, n.val)
        ELSE Integer_iadd(b, n.buf)

\* C1 mutant: the maximum carried is the positive one whatever the dividend
IntDivZero_Positive(b) ==
    Raise(b, "DivisionByZero", Val("Single", pos_max("Single")))

\* the Single maximum of the dividend's sign, carried by ZeroDivisionError
IntDivZero(b) ==
    Raise(b, "DivisionByZero",
          Val("Single", IF Integer_is_negative(b) THEN neg_max("Single")
                                                  ELSE pos_max("Single")))

\* C4 mutant: Python's floor division for every combination of signs
Integer_idiv_int_Floor(b, r) ==
    IF Integer_is_zero(r)
    THEN IntDivZero(b)
    ELSE Integer_from_int(b, PyFloorDiv(Integer_to_int(b, FALSE),
                                        Integer_to_int(r, FALSE)), FALSE)

Integer_idiv_int(b, r) ==
    IF Integer_is_zero(r)
    THEN IntDivZero(b)
    ELSE LET dividend == Integer_to_int(b, FALSE)
             divisor  == Integer_to_int(r, FALSE)
         IN  IF (dividend >= 0) = (divisor >= 0)
             THEN Integer_from_int(b, PyFloorDiv(dividend, divisor), FALSE)
             ELSE Integer_from_int(b, -(PyFloorDiv(Abs(dividend), Abs(divisor))), FALSE)

Integer_imod(b, r) ==
    IF Integer_is_zero(r)
    THEN IntDivZero(b)
    ELSE LET dividend == Integer_to_int(b, FALSE)
             divisor  == Integer_to_int(r, FALSE)
             mod0     == PyMod(dividend, divisor)
             mod      == IF dividend < 0 \/ mod0 < 0 THEN mod0 - divisor ELSE mod0
         IN  Integer_from_int(b, mod, FALSE)

\* Integer.gt against another Integer
Integer_gt(b, r) ==
    LET isneg == b[2] >= 128
    IN  IF isneg # (r[2] >= 128)
        THEN ~isneg
        ELSE LET lmsb == ByteAnd7f(b[2])
                 rmsb == ByteAnd7f(r[2])
             IN  IF lmsb > rmsb THEN TRUE
                 ELSE IF lmsb < rmsb THEN FALSE
                 ELSE b[1] > r[1]

\* Integer.eq against another Integer
Integer_eq(b, r) == b = r

(***************************************************************************)
(* class Float: the engine shared by Single and Double.  t is the class;   *)
(* a denormalised value is [exp, man, neg], man holding the mantissa with  *)
(* its leading bit restored above one guard byte.                          *)
(***************************************************************************)
Bias(t) == IF t = "Single" THEN 128 + 24 ELSE 128 + 56

den_mask(t)  == Zeroes(Size(t) - 1) \o <<128>>
den_upper(t) == Zeroes(Size(t)) \o <<1>>
posmask(t)   == [i \in 1..(Size(t) - 1) |-> IF i = Size(t) - 1 THEN 127 ELSE 255]
mask(t)      == [i \in 1..(Size(t) - 1) |-> 255]

one(t) == Zeroes(Size(t) - 1) \o <<129>>
ten(t) == Zeroes(Size(t) - 2) \o <<32, 132>>

Den(e, m, n) == [exp |-> e, man |-> m, neg |-> n]

Float_is_zero(b) == b[Len(b)] = 0

Float_is_negative(b) == b[Len(b) - 1] >= 128

\* struct.unpack(b'\0' + buffer[:-1]) | _den_mask
Float_denormalise(b) ==
    LET n == Len(b)
    IN  Den(b[n],
            BNorm(<<0>> \o [i \in 1..(n - 1) |->
                               IF i = n - 1 /\ b[i] < 128 THEN b[i] + 128 ELSE b[i]]),
            Float_is_negative(b))

\* struct.pack_into(_intformat, buffer, 0, m & (_mask if neg else _posmask)):
\* all Size(t) bytes are written, the last with the zero above the mask
PackMan(t, m, neg) ==
    [i \in 1..Size(t) |->
        IF i = Size(t) THEN 0
        ELSE IF i = Size(t) - 1 /\ ~neg THEN BByte(m, i) % 128
        ELSE BByte(m, i)]

\* while man <= lower: exp -= 1; man <<= 1
RECURSIVE BringUp(_, _)
BringUp(me, lower) ==
    IF BLe(me.man, lower)
    THEN BringUp([man |-> BShl(me.man, 1), exp |-> me.exp - 1], lower)
    ELSE me

\* while man > upper: exp += 1; man >>= 1
RECURSIVE BringDown(_, _)
BringDown(me, upper) ==
    IF BGt(me.man, upper)
    THEN BringDown([man |-> BShr(me.man, 1), exp |-> me.exp + 1], upper)
    ELSE me

\* for man > 0
Float_bring_to_range(man, exp, lower, upper) ==
    BringDown(BringUp([man |-> man, exp |-> exp], lower), upper)

\* _check_limits on a receiver holding b, and the bytes that follow a True
Float_check_limits(t, b, exp, neg) ==
    IF exp > 255
    THEN LET m == IF neg THEN neg_max(t) ELSE pos_max(t)
         IN  Raise(m, "Overflow", Val(t, m))
    ELSE IF exp <= 0
    THEN Return([b EXCEPT ![Size(t)] = 0], "self")
    ELSE Return([b EXCEPT ![Size(t)] = exp], "self")

\* from_int once _bring_to_range has given r = [man, exp]
FromIntRanged(t, b, neg, r) ==
    IF r.exp > 0 /\ r.exp <= 255
    THEN Return([PackMan(t, r.man, neg) EXCEPT ![Size(t)] = r.exp], "self")
    ELSE Float_check_limits(t, b, r.exp, neg)

\* from_int of the Python int with sign neg and magnitude mag
Float_from_int(t, b, neg, mag) ==
    IF mag = <<>>
    THEN Return(Zeroes(Size(t)), "self")
    ELSE FromIntRanged(t, b, neg,
                       Float_bring_to_range(mag, Bias(t), posmask(t), mask(t)))

\* while man < (_den_mask - 1): exp -= 1; man <<= 1
ShiftLeftSubnormal(t, exp, man) ==
    BringUp([man |-> man, exp |-> exp], BSub(den_mask(t), <<2>>))

\* C26 mutant: a guard byte of 0x80 always rounds up
RoundedMan_HalfUp(t, man) ==
    BAdd(BClearLow(BCut(man, Size(t))),
         IF BByte(man, 1) >= 128 THEN <<0, 1>> ELSE <<>>)

\* round to nearest, halves to even: (man & _carrymask) + 0x100 * round_up
RoundedMan(t, man) ==
    LET low == BByte(man, 1)
    IN  BAdd(BClearLow(BCut(man, Size(t))),
             IF low > 128 \/ (low = 128 /\ BBit(man, 8) = 1)
             THEN <<0, 1>> ELSE <<>>)

\* if man >= _den_upper: exp += 1; man >>= 1
CarryOut(t, exp, man) ==
    IF BGe(man, den_upper(t))
    THEN [man |-> BShr(man, 1), exp |-> exp + 1]
    ELSE [man |-> man, exp |-> exp]

\* pack_into of man >> 8, then _check_limits and the exponent byte
PackChecked(t, me, neg) ==
    Float_check_limits(t, PackMan(t, BShr(me.man, 8), neg), me.exp, neg)

NormaliseShifted(t, me, neg) ==
    PackChecked(t, CarryOut(t, me.exp, RoundedMan(t, me.man)), neg)

Float_normalise(t, den) ==
    IF den.man = <<>> \/ den.exp <= 0
    THEN Return(Zeroes(Size(t)), "self")
    ELSE NormaliseShifted(t, ShiftLeftSubnormal(t, den.exp, den.man), den.neg)

\* if not zero_flag and not sub_flag: man |= 0x1
TieBroken(me, zero_flag, neg) ==
    Den(me.exp, IF zero_flag THEN me.man ELSE BSetBit0(me.man), neg)

\* if sub_flag and man & 0x1c0 == 0x80 and man & 0x1df != 0x80:
\*     man &= _carrymask + 0x7f
SubQuirk(t, man) ==
    IF /\ BBit(man, 7) = 1 /\ BBit(man, 6) = 0 /\ BBit(man, 8) = 0
       /\ BByte(man, 1) % 32 # 0
    THEN BClearBit(BCut(man, Size(t)), 7)
    ELSE man

\* _add_den once the exponents match: l is the smaller operand and lman its
\* mantissa shifted right
AddMatched(t, l, r, lman, zero_flag, sub_flag) ==
    IF (BLt(lman, <<128>>) \/ (lman = <<128>> /\ zero_flag)) /\ sub_flag
    THEN r
    ELSE IF sub_flag
    THEN Den(r.exp, SubQuirk(t, BSub(r.man, lman)), r.neg)
    ELSE TieBroken(CarryOut(t, r.exp, BAdd(lman, r.man)), zero_flag, l.neg)

\* C11 mutant: the exponents are not matched before the mantissas are added
AddOrdered_Unmatched(t, l, r) ==
    AddMatched(t, l, r, l.man, TRUE, l.neg # r.neg)

\* _add_den once the right operand is the larger
AddOrdered(t, l, r) ==
    AddMatched(t, l, r, BShr(l.man, r.exp - l.exp),
               BLow(l.man, r.exp - l.exp) = <<>>, l.neg # r.neg)

\* C29 mutant: the operands are taken as they come, the left one as smaller
Float_add_den_Unordered(t, lden, rden) ==
    IF rden.exp = 0 THEN lden
    ELSE IF lden.exp = 0 THEN rden
    ELSE IF lden.exp > rden.exp
    THEN AddOrdered(t, rden, lden)
    ELSE AddOrdered(t, lden, rden)

Float_add_den(t, lden, rden) ==
    IF rden.exp = 0 THEN lden
    ELSE IF lden.exp = 0 THEN rden
    ELSE IF lden.exp > rden.exp
            \/ (lden.exp = rden.exp /\ BGt(lden.man, rden.man))
    THEN AddOrdered(t, rden, lden)
    ELSE AddOrdered(t, lden, rden)

Float_iadd(t, b, r) ==
    Float_normalise(t, Float_add_den(t, Float_denormalise(b), Float_denormalise(r)))

\* (rexp, rman, not rneg)
Negated(den) == Den(den.exp, den.man, ~den.neg)

Float_isub(t, b, r) ==
    Float_normalise(t, Float_add_den(t, Float_denormalise(b),
                                     Negated(Float_denormalise(r))))

Float_ineg(b) == Return([b EXCEPT ![Len(b) - 1] = ByteXor80(@)], "self")

Float_iabs(b) == Return([b EXCEPT ![Len(b) - 1] = ByteAnd7f(@)], "self")

\* if lman & 0xf == 0x9: lman &= _carrymask + 0xfe
MulQuirk(t, me, neg) ==
    Den(me.exp,
        IF BByte(me.man, 1) % 16 = 9 THEN BClearBit(BCut(me.man, Size(t)), 0)
        ELSE me.man,
        neg)

\* imul on the denormalised operands; the value of _normalise is dropped and
\* self returned
MulDen(t, l, r, lexp) ==
    IF lexp < -31
    THEN Return(Zeroes(Size(t)), "buffer")
    ELSE Float_normalise(t,
             MulQuirk(t, Float_bring_to_range(BMul(l.man, r.man), lexp,
                                              BShr(den_mask(t), 4),
                                              BShr(den_upper(t), 4)),
                      l.neg # r.neg))

MulExp(t, l, r) == MulDen(t, l, r, l.exp + r.exp - Bias(t) - 8)

Float_imul(t, b, r) ==
    IF Float_is_zero(b) \/ Float_is_zero(r)
    THEN Return(Zeroes(Size(t)), "self")
    ELSE MulExp(t, Float_denormalise(b), Float_denormalise(r))

\* one turn of the long division: lman <<= 1; lexp -= 1;
\* if work_man > rman: work_man -= rman; lman += 1; then rman >>= 1
DivTurn(d, take) ==
    [work_man |-> IF take THEN BSub(d.work_man, d.rman) ELSE d.work_man,
     rman     |-> BShr(d.rman, 1),
     lman     |-> IF take THEN BAdd(BShl(d.lman, 1), <<1>>) ELSE BShl(d.lman, 1),
     lexp     |-> d.lexp - 1]

\* the long division of _div_den: while rman > 0
RECURSIVE DivLoop(_)
DivLoop(d) ==
    IF d.rman = <<>> THEN d ELSE DivLoop(DivTurn(d, BGt(d.work_man, d.rman)))

Quotient(q, neg) == Den(q.lexp, q.lman, neg)

Float_div_den(t, lden, rden) ==
    Quotient(DivLoop([work_man |-> lden.man, rman |-> rden.man, lman |-> <<>>,
                      lexp |-> lden.exp - (rden.exp - Bias(t) - 8) + 1]),
             lden.neg # rden.neg)

Float_idiv(t, b, r) ==
    IF Float_is_zero(r)
    THEN LET m == IF Float_is_negative(b) THEN neg_max(t) ELSE pos_max(t)
         IN  Raise(m, "DivisionByZero", Val(t, m))
    ELSE IF Float_is_zero(b)
    THEN Return(b, "self")
    ELSE Float_normalise(t, Float_div_den(t, Float_denormalise(b),
                                          Float_denormalise(r)))

\* self.imul(self) and self.imul(base) on the receiver that the call p left,
\* unless p raised; the value imul returns is dropped
SelfSquared(t, p) ==
    IF p.sig # "none" THEN p ELSE Float_imul(t, p.buf, p.buf)

SelfTimes(t, p, base) ==
    IF p.sig # "none" THEN p ELSE Float_imul(t, p.buf, base)

\* return self
ReturnSelf(p) == IF p.sig # "none" THEN p ELSE Return(p.buf, "self")

\* _ipow_int for expt >= 0
RECURSIVE PowNat(_, _, _)
PowNat(t, b, expt) ==
    IF expt > 1
    THEN IF expt % 2 = 0
         THEN ReturnSelf(SelfSquared(t, PowNat(t, b, expt \div 2)))
         ELSE ReturnSelf(SelfTimes(t, SelfSquared(t, PowNat(t, b, (expt - 1) \div 2)), b))
    ELSE IF expt = 0
    THEN Return(one(t), "self")
    ELSE Return(b, "self")

\* self = self.new().from_bytes(self._one).idiv(self): the quotient q is built
\* in a new value, which is bound to the local name self and returned; the
\* receiver keeps the bytes b
Rebound(t, b, q) ==
    IF q.sig # "none"
    THEN Raise(b, q.sig, q.val)
    ELSE ReturnNew(b, Val(t, q.buf))

Reciprocal(t, p) ==
    IF p.sig # "none" THEN p ELSE Rebound(t, p.buf, Float_idiv(t, one(t), p.buf))

Float_ipow_int(t, b, expt) ==
    IF expt < 0
    THEN Reciprocal(t, PowNat(t, b, -expt))
    ELSE PowNat(t, b, expt)

\* while man < _den_mask: exp -= 1; man <<= 1
ShiftLeftQuotient(t, d, neg) ==
    LET s == BringUp(d, BSub(den_mask(t), <<1>>))
    IN  Den(s.exp, s.man, neg)

ManExp(den) == [man |-> den.man, exp |-> den.exp]

Div10Shifted(t, q) == ShiftLeftQuotient(t, ManExp(q), q.neg)

Float_div10_den(t, lden) ==
    Div10Shifted(t, Float_div_den(t, lden, Float_denormalise(ten(t))))

Float_mul10_den(t, den) ==
    Float_add_den(t, Den(den.exp + 1, den.man, den.neg),
                     Den(den.exp + 3, den.man, den.neg))

\* the two loops of from_decimal over d = [den, exp10]
RECURSIVE ApplyExp10(_, _)
ApplyExp10(t, d) ==
    IF d.exp10 < 0
    THEN ApplyExp10(t, [den |-> Float_div10_den(t, d.den), exp10 |-> d.exp10 + 1])
    ELSE IF d.exp10 > 0
    THEN ApplyExp10(t, [den |-> Float_mul10_den(t, d.den), exp10 |-> d.exp10 - 1])
    ELSE d.den

\* from_decimal once from_int has had the outcome f
FromDecimalScaled(t, f, exp10) ==
    IF f.sig # "none" THEN f
    ELSE Float_normalise(t, ApplyExp10(t, [den   |-> Float_denormalise(f.buf),
                                           exp10 |-> exp10]))

\* from_decimal of the mantissa with sign neg and magnitude mag
Float_from_decimal(t, b, neg, mag, exp10) ==
    FromDecimalScaled(t, Float_from_int(t, b, neg, mag), exp10)

\* Single._lim_top, _lim_bot and Double._lim_top, _lim_bot
lim_top(t) ==
    IF t = "Single" THEN <<127, 150, 24, 152>>
    ELSE <<255, 255, 3, 191, 201, 27, 14, 182>>

lim_bot(t) ==
    IF t = "Single" THEN <<255, 35, 116, 148>>
    ELSE <<255, 255, 159, 49, 169, 95, 99, 178>>

Float_abs_gt_den(lden, rden) ==
    IF lden.exp # rden.exp THEN lden.exp > rden.exp ELSE BGt(lden.man, rden.man)

\* if (man & 0xff) > 0x7f: man += 0x100
CarryRounded(man) == IF BByte(man, 1) > 127 THEN BAdd(man, <<0, 1>>) ELSE man

\* man ^= man & 0xff
CarryCleared(me, neg) == Den(me.exp, BClearLow(me.man), neg)

Float_apply_carry_den(t, den) ==
    CarryCleared(CarryOut(t, den.exp, CarryRounded(den.man)), den.neg)

\* the loops of to_decimal over d = [den, exp10]
RECURSIVE DecLoopDown(_, _, _)
DecLoopDown(t, d, tden) ==
    IF Float_abs_gt_den(d.den, tden)
    THEN DecLoopDown(t, [den |-> Float_div10_den(t, d.den), exp10 |-> d.exp10 + 1],
                     tden)
    ELSE d

RECURSIVE DecLoopUp(_, _, _)
DecLoopUp(t, d, bden) ==
    IF Float_abs_gt_den(bden, d.den)
    THEN DecLoopUp(t, [den |-> Float_mul10_den(t, d.den), exp10 |-> d.exp10 - 1],
                   bden)
    ELSE d

DecCarried(t, d) == [den |-> Float_apply_carry_den(t, d.den), exp10 |-> d.exp10]

\* exp -= _bias; man <<= exp or man >>= -exp
DecShifted(man, exp) == IF exp > 0 THEN BShl(man, exp) ELSE BShr(man, -exp)

\* if man & 0x80: man += 0x80; then man >> 8
DecRoundedInt(man) ==
    BShr(IF BBit(man, 7) = 1 THEN BAdd(man, <<128>>) ELSE man, 8)

\* a Python int as its sign and magnitude
SignedInt(neg, mag) == [neg |-> neg /\ mag # <<>>, mag |-> mag]

\* num, exp10 of to_decimal
DecResult(t, d) ==
    [num   |-> SignedInt(d.den.neg,
                         DecRoundedInt(DecShifted(d.den.man, d.den.exp - Bias(t)))),
     exp10 |-> d.exp10]

\* to_decimal() with digits=None
Float_to_decimal(t, b) ==
    DecResult(t,
        DecCarried(t,
            DecLoopUp(t,
                DecCarried(t,
                    DecLoopDown(t, [den |-> Float_denormalise(b), exp10 |-> 0],
                                Float_denormalise(lim_top(t)))),
                Float_denormalise(lim_bot(t)))))

\* Double.from_single on a new Double
Double_from_single(s) == Zeroes(4) \o s

\* man += mybytes[3]
CarryByte(den, byte) == Den(den.exp, BAdd(den.man, BFromNat(byte)), den.neg)

\* Double.to_single: the outcome on the new Single
Double_to_single(b) ==
    Float_normalise("Single", CarryByte(Float_denormalise(SubSeq(b, 5, 8)), b[4]))

(***************************************************************************)
(* Relations.  A value is [kind, buf]; gt and eq dispatch on the classes   *)
(* of the receiver and of the right-hand operand as the isinstance tests   *)
(* of the methods do.                                                      *)
(***************************************************************************)
Min(a, b) == IF a < b THEN a ELSE b

\* Float.from_integer on a new value of class t
Float_from_integer(t, i) ==
    LET n == Integer_to_int(i, FALSE)
    IN  Float_from_int(t, Zeroes(Size(t)), n < 0, BFromNat(Abs(n))).buf

\* the loop of _abs_gt over reversed(zip(self._buffer, rhscopy))
RECURSIVE AbsGtFrom(_, _, _)
AbsGtFrom(b, rhscopy, i) ==
    IF i = 0 THEN FALSE
    ELSE IF b[i] > rhscopy[i] THEN TRUE
    ELSE IF b[i] < rhscopy[i] THEN FALSE
    ELSE AbsGtFrom(b, rhscopy, i - 1)

Float_abs_gt(b, r) ==
    IF Float_is_zero(b)
    THEN FALSE
    ELSE LET \* rhscopy[-2] &= (ord(self._buffer[-2]) | 0x7f)
             rhscopy == [r EXCEPT ![Len(r) - 1] =
                            IF b[Len(b) - 1] >= 128 THEN @ ELSE ByteAnd7f(@)]
         IN  AbsGtFrom(b, rhscopy, Min(Len(b), Len(r)))

\* C9 mutant: zero is not treated separately
FloatGtBody_NoZeroCase(b, r) ==
    IF Float_is_negative(b) # Float_is_negative(r) THEN ~Float_is_negative(b)
    ELSE IF Float_is_negative(b) THEN Float_abs_gt(r, b)
    ELSE Float_abs_gt(b, r)

\* Float.gt once the isinstance tests have passed
FloatGtBody(b, r) ==
    LET rhsneg == Float_is_negative(r)
        isneg  == Float_is_negative(b)
    IN  IF Float_is_zero(b) THEN rhsneg /\ ~Float_is_zero(r)
        ELSE IF isneg # rhsneg THEN ~isneg
        ELSE IF isneg THEN Float_abs_gt(r, b)
        ELSE Float_abs_gt(b, r)

\* Float.eq once the isinstance tests have passed
FloatEqBody(b, r) ==
    IF Float_is_zero(b) THEN Float_is_zero(r) ELSE b = r

Float_gt(a, r) ==
    IF r.kind = "Integer"
    THEN FloatGtBody(a.buf, Float_from_integer(a.kind, r.buf))
    ELSE IF r.kind = "Double" /\ a.kind = "Single"
    THEN FloatGtBody(Double_from_single(a.buf), r.buf)
    ELSE FloatGtBody(a.buf, r.buf)

Float_eq(a, r) ==
    IF r.kind = "Integer"
    THEN FloatEqBody(a.buf, Float_from_integer(a.kind, r.buf))
    ELSE IF r.kind = "Double" /\ a.kind = "Single"
    THEN FloatEqBody(Double_from_single(a.buf), r.buf)
    ELSE FloatEqBody(a.buf, r.buf)

\* a.gt(r) and a.eq(r) for values of any class
Number_gt(a, r) ==
    IF a.kind = "Integer"
    THEN IF r.kind = "Integer"
         THEN Integer_gt(a.buf, r.buf)
         ELSE Float_gt(Val(r.kind, Float_from_integer(r.kind, a.buf)), r)
    ELSE Float_gt(a, r)

Number_eq(a, r) ==
    IF a.kind = "Integer"
    THEN IF r.kind = "Integer"
         THEN Integer_eq(a.buf, r.buf)
         ELSE Float_eq(Val(r.kind, Float_from_integer(r.kind, a.buf)), r)
    ELSE Float_eq(a, r)

PyBool(x) == IF x THEN "True" ELSE "False"

(***************************************************************************)
(* The caller drops what the last call returned or raised (and the model   *)
(* its record of the call); the receiver keeps its bytes.                  *)
(***************************************************************************)
Discard ==
    /\ op # "new"
    /\ op' = "new"
    /\ rhs' = NoValue
    /\ arg' = 0
    /\ pre' = buf
    /\ signal' = "none"
    /\ carried' = NoValue
    /\ result' = "self"
    /\ object' = NoValue
    /\ UNCHANGED <<kind, buf, steps>>
    /\ UNCHANGED audioVars

(***************************************************************************)
(* The Integer machine.                                                    *)
(***************************************************************************)
IntInputs ==
    (-32768 .. (-32768 + IntEdge)) \cup ((-IntNear) .. IntNear)
        \cup ((32767 - IntEdge) .. 32767)

IntBufs == {PackInt16(v) : v \in IntInputs}

\* the receiver after a call, and the record of that call; the next call is
\* made once the caller has dropped this record
Called(name, r, a, out) ==
    /\ op = "new"
    /\ steps < MaxSteps
    /\ steps' = steps + 1
    /\ UNCHANGED audioVars
    /\ op' = name
    /\ rhs' = r
    /\ arg' = a
    /\ pre' = buf
    /\ buf' = out.buf
    /\ signal' = out.sig
    /\ carried' = out.val
    /\ result' = out.ret
    /\ object' = out.obj
    /\ UNCHANGED kind

IntInit ==
    /\ kind = "Integer"
    /\ buf \in IntBufs
    /\ op = "new"
    /\ rhs = NoValue
    /\ arg = 0
    /\ pre = buf
    /\ signal = "none"
    /\ carried = NoValue
    /\ result = "self"
    /\ object = NoValue
    /\ steps = 0
    /\ NoAudio

Ineg ==
    /\ kind = "Integer"
    /\ Called("ineg", NoValue, 0, Integer_ineg(buf))

Iadd ==
    /\ kind = "Integer"
    /\ \E r \in IntBufs :
          Called("iadd", Val("Integer", r), 0, Integer_iadd(buf, r))

Isub ==
    /\ kind = "Integer"
    /\ \E r \in IntBufs :
          Called("isub", Val("Integer", r), 0, Integer_isub(buf, r))

IdivInt ==
    /\ kind = "Integer"
    /\ \E r \in IntBufs :
          Called("idiv_int", Val("Integer", r), 0, Integer_idiv_int(buf, r))

Imod ==
    /\ kind = "Integer"
    /\ \E r \in IntBufs :
          Called("imod", Val("Integer", r), 0, Integer_imod(buf, r))

IntNext == Ineg \/ Iadd \/ Isub \/ IdivInt \/ Imod \/ Discard

SpecInt == IntInit /\ [][IntNext]_vars

(***************************************************************************)
(* The Float machine.  Receivers and operands are values built by from_int *)
(* and from_decimal on a new (zero-filled) value.                          *)
(***************************************************************************)
FloatKinds == {"Single", "Double"}

\* a Python int as [neg, mag]
PyInt(n) == [neg |-> n < 0, mag |-> BFromNat(Abs(n))]

\* 2^127, which no Single or Double holds
TwoTo127 == [neg |-> FALSE, mag |-> Zeroes(15) \o <<128>>]

FloatInts == {PyInt(0), PyInt(1), PyInt(-1), PyInt(3), PyInt(10)}

\* (mantissa, exp10): 1E+38, 3E-39 and -4E-39 lie at the ends of the range
FloatDecimals ==
    {[m |-> PyInt(1), e |-> 38], [m |-> PyInt(3), e |-> -39],
     [m |-> PyInt(-4), e |-> -39]}

PowExps == {-2, -1, 0, 1, 2, 3}

Built(t) ==
    {Float_from_int(t, Zeroes(Size(t)), n.neg, n.mag).buf : n \in FloatInts}
    \cup {Float_from_decimal(t, Zeroes(Size(t)), d.m.neg, d.m.mag, d.e).buf :
             d \in FloatDecimals}

SingleSeeds == Built("Single")
DoubleSeeds == Built("Double")

FSeeds(t) == IF t = "Single" THEN SingleSeeds ELSE DoubleSeeds

FloatInit ==
    /\ kind \in FloatKinds
    /\ buf \in FSeeds(kind)
    /\ op = "new"
    /\ rhs = NoValue
    /\ arg = 0
    /\ pre = buf
    /\ signal = "none"
    /\ carried = NoValue
    /\ result = "self"
    /\ object = NoValue
    /\ steps = 0
    /\ NoAudio

IsFloat == kind \in FloatKinds

FromInt ==
    /\ IsFloat
    /\ \E n \in FloatInts \cup {TwoTo127} :
          Called("from_int", NoValue, n, Float_from_int(kind, buf, n.neg, n.mag))

FromDecimal ==
    /\ IsFloat
    /\ \E d \in FloatDecimals \cup {[m |-> PyInt(1), e |-> 39]} :
          Called("from_decimal", NoValue, d,
                 Float_from_decimal(kind, buf, d.m.neg, d.m.mag, d.e))

Fneg ==
    /\ IsFloat
    /\ Called("ineg", NoValue, 0, Float_ineg(buf))

Fadd ==
    /\ IsFloat
    /\ \E r \in FSeeds(kind) :
          Called("iadd", Val(kind, r), 0, Float_iadd(kind, buf, r))

Fsub ==
    /\ IsFloat
    /\ \E r \in FSeeds(kind) :
          Called("isub", Val(kind, r), 0, Float_isub(kind, buf, r))

Fmul ==
    /\ IsFloat
    /\ \E r \in FSeeds(kind) :
          Called("imul", Val(kind, r), 0, Float_imul(kind, buf, r))

\* the divisor may also be a zero whose sign bit is set
Fdiv ==
    /\ IsFloat
    /\ \E r \in FSeeds(kind) \cup {Float_ineg(Zeroes(Size(kind))).buf} :
          Called("idiv", Val(kind, r), 0, Float_idiv(kind, buf, r))

FpowInt ==
    /\ IsFloat
    /\ \E n \in PowExps :
          Called("ipow_int", NoValue, n, Float_ipow_int(kind, buf, n))

\* Double.to_single: the new Single becomes the receiver
ToSingle ==
    /\ kind = "Double"
    /\ op = "new"
    /\ steps < MaxSteps
    /\ LET out == Double_to_single(buf)
       IN  /\ kind' = "Single"
           /\ buf' = out.buf
           /\ signal' = out.sig
           /\ carried' = out.val
           /\ result' = out.ret
           /\ object' = out.obj
    /\ op' = "to_single"
    /\ rhs' = NoValue
    /\ arg' = 0
    /\ pre' = buf
    /\ steps' = steps + 1
    /\ UNCHANGED audioVars

FloatNext ==
    \/ FromInt \/ FromDecimal \/ Fneg \/ Fadd \/ Fsub \/ Fmul \/ Fdiv
    \/ FpowInt \/ ToSingle \/ Discard

SpecFloat == FloatInit /\ [][FloatNext]_vars

(***************************************************************************)
(* The comparison machine.  A receiver is any byte pattern (from_bytes,    *)
(* from_token and clone copy bytes as they are); gt and eq leave it alone. *)
(***************************************************************************)
CmpMantissas ==
    {<<0, 0, 0>>, <<1, 0, 0>>, <<0, 1, 0>>, <<0, 0, 32>>, <<255, 255, 127>>,
     <<0, 0, 128>>, <<0, 0, 160>>, <<255, 255, 255>>}

CmpExponents == {0, 1, 129, 132, 255}

CmpSingles == {m \o <<e>> : m \in CmpMantissas, e \in CmpExponents}

CmpDoubles ==
    {Zeroes(4) \o s : s \in CmpSingles} \cup {<<1, 0, 0, 0>> \o s : s \in CmpSingles}

CmpIntegers == {PackInt16(v) : v \in {-32768, -8, -1, 0, 1, 8, 32767}}

CmpValues ==
    {Val("Single", b) : b \in CmpSingles} \cup {Val("Double", b) : b \in CmpDoubles}
        \cup {Val("Integer", b) : b \in CmpIntegers}

CmpInit ==
    /\ \E v \in CmpValues : kind = v.kind /\ buf = v.buf
    /\ op = "new"
    /\ rhs = NoValue
    /\ arg = 0
    /\ pre = buf
    /\ signal = "none"
    /\ carried = NoValue
    /\ result = "self"
    /\ object = NoValue
    /\ steps = 0
    /\ NoAudio

Gt ==
    \E r \in CmpValues :
        Called("gt", r, 0, Return(buf, PyBool(Number_gt(Val(kind, buf), r))))

Eq ==
    \E r \in CmpValues :
        Called("eq", r, 0, Return(buf, PyBool(Number_eq(Val(kind, buf), r))))

CmpNext == Gt \/ Eq \/ Discard

SpecCmp == CmpInit /\ [][CmpNext]_vars

(***************************************************************************)
(* The arithmetic of both classes: an Integer or a Float receiver and      *)
(* every in-place operation on it.                                         *)
(***************************************************************************)
Init == IntInit \/ FloatInit

Next ==
    \/ Ineg \/ Iadd \/ Isub \/ IdivInt \/ Imod
    \/ FromInt \/ FromDecimal \/ Fneg \/ Fadd \/ Fsub \/ Fmul \/ Fdiv
    \/ FpowInt \/ ToSingle
    \/ Discard

Spec == Init /\ [][Next]_vars

(***************************************************************************)
(* Properties of the Integer operations.                                   *)
(***************************************************************************)
\* the operands of the last call read as signed 16-bit numbers
IntA == Integer_to_int(pre, FALSE)
IntB == Integer_to_int(rhs.buf, FALSE)
IntR == Integer_to_int(buf, FALSE)

InInt16(n) == -32768 <= n /\ n <= 32767

IntCall(name) == kind = "Integer" /\ op = name

\* q is a/b rounded toward zero: the remainder is smaller than the divisor
\* and is zero or has the sign of a
IsTruncQuot(q, a, b) ==
    LET r == a - q * b
    IN  Abs(r) < Abs(b) /\ (r = 0 \/ (r < 0) = (a < 0))

\* C2: iadd signals Overflow iff a+b is outside [-32768, 32767], and
\* otherwise leaves the two's-complement encoding of a+b in the receiver.
C2_AddOverflowIff ==
    IntCall("iadd") =>
        /\ (signal = "Overflow") <=> ~InInt16(IntA + IntB)
        /\ InInt16(IntA + IntB) => (signal = "none" /\ IntR = IntA + IntB)

\* C3: for b # 0, imod leaves r = a - b*trunc(a/b) in the receiver: r is
\* zero or has the sign of a, and |r| < |b|.
C3_ModSignOfDividend ==
    (IntCall("imod") /\ IntB # 0) =>
        /\ signal = "none"
        /\ Abs(IntR) < Abs(IntB)
        /\ (IntR = 0 \/ (IntR < 0) = (IntA < 0))
        /\ \E q \in -32768..32768 : IsTruncQuot(q, IntA, IntB) /\ IntR = IntA - q * IntB

\* C4: for b # 0, idiv_int leaves a/b truncated toward zero in the receiver;
\* the only case that signals Overflow is -32768 \ -1.
C4_IdivTruncates ==
    (IntCall("idiv_int") /\ IntB # 0) =>
        IF IntA = -32768 /\ IntB = -1
        THEN signal = "Overflow"
        ELSE signal = "none" /\ IsTruncQuot(IntR, IntA, IntB)

\* C4 witness: -7 \ 2 = -3 (floor division would give -4)
C4_Witness ==
    IntCall("idiv_int") /\ IntA = -7 /\ IntB = 2 /\ signal = "none" /\ IntR = -3

\* C5: isub signals Overflow iff a-b is outside [-32768, 32767], and
\* otherwise leaves a-b in the receiver.
C5_SubOverflowIff ==
    IntCall("isub") =>
        /\ (signal = "Overflow") <=> ~InInt16(IntA - IntB)
        /\ InInt16(IntA - IntB) => (signal = "none" /\ IntR = IntA - IntB)

\* C6: ineg signals Overflow only for the bytes of -32768; for every other
\* value v it leaves the encoding of -v, and negating again restores v's bytes.
C6_NegateOnlyMinOverflows ==
    IntCall("ineg") =>
        IF pre = <<0, 128>>
        THEN signal = "Overflow"
        ELSE /\ signal = "none"
             /\ IntR = -Integer_to_int(pre, FALSE)
             /\ Integer_ineg(buf) = Return(pre, "self")

\* C6 witness: negate(0) = 0, reached by a call of ineg
C6_Witness ==
    IntCall("ineg") /\ pre = <<0, 0>> /\ buf = <<0, 0>> /\ signal = "none"

(***************************************************************************)
(* Properties of division by zero.                                         *)
(***************************************************************************)
FloatCall(name) == kind \in FloatKinds /\ op = name

\* the sign bit of a Float dividend, as is_negative reads it
DividendNegative == pre[Len(pre) - 1] >= 128

\* C1: idiv_int, imod and Float idiv called with a divisor that is zero
\* signal DivisionByZero and nothing else; the exception carries the Single
\* maximum of the dividend's sign for an Integer dividend, and for a Float
\* dividend the receiver itself, set to pos_max or neg_max of its own type.
C1_DivisionByZero ==
    /\ ((IntCall("idiv_int") \/ IntCall("imod")) /\ Integer_is_zero(rhs.buf)) =>
          /\ signal = "DivisionByZero"
          /\ result = "raised"
          /\ carried = Val("Single", IF IntA < 0 THEN <<255, 255, 255, 255>>
                                                 ELSE <<255, 255, 127, 255>>)
    /\ (FloatCall("idiv") /\ Float_is_zero(rhs.buf)) =>
          /\ signal = "DivisionByZero"
          /\ result = "raised"
          /\ buf = (IF DividendNegative THEN neg_max(kind) ELSE pos_max(kind))
          /\ carried = Val(kind, buf)

\* C1 witness: a negative Double divided by zero holds the Double neg_max
C1_Witness ==
    /\ FloatCall("idiv") /\ kind = "Double" /\ Float_is_zero(rhs.buf)
    /\ DividendNegative /\ ~Float_is_zero(pre)
    /\ signal = "DivisionByZero"
    /\ buf = <<255, 255, 255, 255, 255, 255, 255, 255>>

(***************************************************************************)
(* Properties of the Float arithmetic.                                     *)
(***************************************************************************)
\* C7: when a Float operation signals Overflow, the receiver holds pos_max
\* or neg_max of its type and the exception carries the receiver's value.
C7_OverflowLeavesMax ==
    (kind \in FloatKinds /\ signal = "Overflow") =>
        /\ buf \in {pos_max(kind), neg_max(kind)}
        /\ carried = Val(kind, buf)

\* C8: every Float receiver for which is_zero holds is the all-zero pattern.
C8_CanonicalZero ==
    (kind \in FloatKinds /\ Float_is_zero(buf)) => buf = Zeroes(Size(kind))

(***************************************************************************)
(* Properties of the relations.                                            *)
(***************************************************************************)
\* the sign of a Float: 0 when the exponent byte is 0
SignOf(b) == IF b[Len(b)] = 0 THEN 0 ELSE IF b[Len(b) - 1] >= 128 THEN -1 ELSE 1

\* the magnitude of a nonzero Float orders as the number made of its exponent
\* byte above its mantissa bits
Magnitude(b) ==
    BNorm([i \in 1..Len(b) |-> IF i = Len(b) - 1 THEN b[i] % 128 ELSE b[i]])

ValueGt(a, b) ==
    IF SignOf(a) # SignOf(b) THEN SignOf(a) > SignOf(b)
    ELSE IF SignOf(a) = 1 THEN BGt(Magnitude(a), Magnitude(b))
    ELSE IF SignOf(a) = -1 THEN BGt(Magnitude(b), Magnitude(a))
    ELSE FALSE

ValueEq(a, b) ==
    SignOf(a) = SignOf(b) /\ (SignOf(a) = 0 \/ Magnitude(a) = Magnitude(b))

SameFloatCall(name) == FloatCall(name) /\ rhs.kind = kind

Count(x) == IF x THEN 1 ELSE 0

\* C9: for Floats a, b of one type, with every encoding whose exponent byte
\* is 0 read as zero, a.gt(b) is value(a) > value(b) and a.eq(b) is
\* value(a) = value(b); exactly one of a.gt(b), b.gt(a), a.eq(b) holds.
C9_SameTypeOrder ==
    /\ SameFloatCall("gt") => (result = "True") = ValueGt(buf, rhs.buf)
    /\ SameFloatCall("eq") => (result = "True") = ValueEq(buf, rhs.buf)
    /\ (SameFloatCall("gt") \/ SameFloatCall("eq")) =>
          Count(Float_gt(Val(kind, buf), rhs)) + Count(Float_gt(rhs, Val(kind, buf)))
              + Count(Float_eq(Val(kind, buf), rhs)) = 1

\* C9 witness: a zero that keeps mantissa bytes is greater than a negative
\* value
C9_Witness ==
    /\ SameFloatCall("gt") /\ kind = "Single"
    /\ buf = <<255, 255, 127, 0>> /\ rhs.buf = <<0, 0, 128, 129>>
    /\ result = "True"

\* the operand converted to the class t of the other operand
Promoted(v, t) ==
    IF v.kind = "Integer" THEN Float_from_integer(t, v.buf)
    ELSE IF v.kind = "Single" /\ t = "Double" THEN Double_from_single(v.buf)
    ELSE v.buf

\* the wider class of two operands
Wider(k1, k2) ==
    IF k1 = "Double" \/ k2 = "Double" THEN "Double"
    ELSE IF k1 = "Single" \/ k2 = "Single" THEN "Single"
    ELSE "Integer"

MixedCall(name) ==
    op = name /\ rhs.kind # kind /\ Wider(kind, rhs.kind) \in FloatKinds

\* C10: a comparison of operands of two classes gives what the comparison
\* within the wider class gives once the narrower operand is promoted,
\* whichever operand is the receiver.
C10_MixedAsPromoted ==
    /\ MixedCall("gt") =>
          (result = "True") = FloatGtBody(Promoted(Val(kind, buf), Wider(kind, rhs.kind)),
                                          Promoted(rhs, Wider(kind, rhs.kind)))
    /\ MixedCall("eq") =>
          (result = "True") = FloatEqBody(Promoted(Val(kind, buf), Wider(kind, rhs.kind)),
                                          Promoted(rhs, Wider(kind, rhs.kind)))

(***************************************************************************)
(* Sums of integers held in Singles: the receiver and the operand are      *)
(* built by from_int from integers below 2^24 in magnitude.                *)
(***************************************************************************)
\* integers within SumNear of 0 and within SumEdge of a power of two
SumNear == 12
SumEdge == 2
SumPowers == {8, 16, 23, 24}

SumInts ==
    {n \in ((-SumNear) .. SumNear)
              \cup {sg * (2 ^ k + d) : sg \in {-1, 1}, k \in SumPowers,
                                       d \in (-SumEdge) .. SumEdge} :
        Abs(n) < 2 ^ 24}

\* Single(...).from_int(n)
SingleOf(n) == Float_from_int("Single", Zeroes(4), n < 0, BFromNat(Abs(n))).buf

\* the Singles built from SumInts, by the integer they are built from
SumTable == [n \in SumInts |-> SingleOf(n)]

SumSingles == {SumTable[n] : n \in SumInts}

SumInit ==
    /\ kind = "Single"
    /\ buf \in SumSingles
    /\ op = "new"
    /\ rhs = NoValue
    /\ arg = 0
    /\ pre = buf
    /\ signal = "none"
    /\ carried = NoValue
    /\ result = "self"
    /\ object = NoValue
    /\ steps = 0
    /\ NoAudio

SumAdd ==
    /\ buf \in SumSingles
    /\ \E r \in SumSingles :
          Called("iadd", Val("Single", r), 0, Float_iadd("Single", buf, r))

SumSub ==
    /\ buf \in SumSingles
    /\ \E r \in SumSingles :
          Called("isub", Val("Single", r), 0, Float_isub("Single", buf, r))

SumNext == SumAdd \/ SumSub \/ Discard

SpecSum == SumInit /\ [][SumNext]_vars

\* the integer a Single of SumSingles was built from
IntOf(b) == CHOOSE n \in SumInts : SumTable[n] = b

SumCall == kind = "Single" /\ op \in {"iadd", "isub"}

SumExpected ==
    IF op = "iadd" THEN IntOf(pre) + IntOf(rhs.buf) ELSE IntOf(pre) - IntOf(rhs.buf)

\* C11: for integers a, b with |a|, |b| and |a+b| below 2^24,
\* from_int(a).iadd(from_int(b)) is byte-equal to from_int(a+b), and
\* from_int(a).isub(from_int(b)) to from_int(a-b) when |a-b| is below 2^24.
C11_IntegerSumExact ==
    (SumCall /\ Abs(SumExpected) < 2 ^ 24) =>
        signal = "none" /\ buf = SingleOf(SumExpected)

\* C11 witness: 10 + 5 = 15
C11_Witness ==
    /\ SumCall /\ op = "iadd"
    /\ pre = SingleOf(10) /\ rhs.buf = SingleOf(5)
    /\ buf = <<0, 0, 112, 132>>

(***************************************************************************)
(* Properties of ipow_int.                                                 *)
(***************************************************************************)
\* 1 / b in a value of class t
ReciprocalOf(t, b) == Float_idiv(t, one(t), b).buf

\* C12: when ipow_int(n) returns, the returned value is the receiver, which
\* holds the power: the constant 1 for n = 0, its bytes before the call for
\* n = 1, and for n < 0 the reciprocal of the power for -n.
C12_PowInPlace ==
    (FloatCall("ipow_int") /\ signal = "none") =>
        /\ result = "self"
        /\ arg = 0 => buf = one(kind)
        /\ arg = 1 => buf = pre
        /\ arg < 0 => buf = ReciprocalOf(kind, PowNat(kind, pre, -arg).buf)


(***************************************************************************)
(* The decimal machine: a new Single or Double takes from_decimal of a     *)
(* mantissa with all the digits of its type, and to_decimal reads it back. *)
(***************************************************************************)
DecExps == {-2, -1, 0, 1, 2}

SingleMantissas == {1000000, 1234567, 7177852, -7212696, 8353921, 9999999}

\* the Python int hi * 10^8 + lo, too wide for one machine word
WideInt(neg, hi, lo) ==
    [neg |-> neg,
     mag |-> BAdd(BMul(BFromNat(hi), BFromNat(100000000)), BFromNat(lo))]

DoubleMantissas ==
    {WideInt(FALSE, 10000000, 0), WideInt(FALSE, 12345678, 90123456),
     WideInt(TRUE, 71778520, 35839217), WideInt(FALSE, 99999999, 99999999)}

DecMantissas(t) ==
    IF t = "Single" THEN {PyInt(m) : m \in SingleMantissas} ELSE DoubleMantissas

DecInputs(t) == {[m |-> m, e |-> e] : m \in DecMantissas(t), e \in DecExps}

DecInit ==
    /\ kind \in FloatKinds
    /\ buf = Zeroes(Size(kind))
    /\ op = "new"
    /\ rhs = NoValue
    /\ arg = 0
    /\ pre = buf
    /\ signal = "none"
    /\ carried = NoValue
    /\ result = "self"
    /\ object = NoValue
    /\ steps = 0
    /\ NoAudio

DecFrom ==
    \E d \in DecInputs(kind) :
        Called("from_decimal", NoValue, d,
               Float_from_decimal(kind, buf, d.m.neg, d.m.mag, d.e))

\* to_decimal leaves the receiver alone and returns the pair (num, exp10)
ToDecimal ==
    /\ ~Float_is_zero(buf)
    /\ Called("to_decimal", NoValue, 0,
              [buf |-> buf, sig |-> "none", val |-> NoValue, ret |-> "tuple",
               obj |-> Float_to_decimal(kind, buf)])

DecNext == DecFrom \/ ToDecimal \/ Discard

SpecDecimal == DecInit /\ [][DecNext]_vars

\* C13: for a nonzero mantissa m with exactly 7 digits for a Single or 16 for
\* a Double and an exponent e that keeps m * 10^e in range, to_decimal() of
\* the value that from_decimal(m, e) left in the receiver returns (m, e).
C13_DecimalRoundTrip ==
    (FloatCall("from_decimal") /\ signal = "none" /\ arg \in DecInputs(kind)) =>
        Float_to_decimal(kind, buf) = [num |-> arg.m, exp10 |-> arg.e]


(***************************************************************************)
(* Strings are sequences of character codes.  str_to_decimal scans one     *)
(* character at a time; p holds its local variables and ctl what the loop  *)
(* does next ("scan", "break", "zero" for the early return, "raise").      *)
(***************************************************************************)
\* ' ', tab and LF
BLANKS == {32, 9, 10}

SEPARATORS == {28, 29, 31}

\* b'0' <= c <= b'9'
IsDigit(c) == 48 <= c /\ c <= 57

\* c in b'+-'
IsSign(c) == c \in {43, 45}

\* c.upper()
Upper(c) == IF 97 <= c /\ c <= 122 THEN c - 32 ELSE c

ScanStart ==
    [found_sign |-> FALSE, found_point |-> FALSE, found_exp |-> FALSE,
     found_exp_sign |-> FALSE, exp_neg |-> FALSE, neg |-> FALSE,
     exp10 |-> 0, exponent |-> 0, mantissa |-> 0, digits |-> 0, zeros |-> 0,
     is_double |-> FALSE, is_single |-> FALSE, ctl |-> "scan"]

\* break if allow_nonnum, else raise ValueError
NonNumeric(p, allow_nonnum) ==
    [p EXCEPT !.ctl = IF allow_nonnum THEN "break" ELSE "raise"]

\* a count that takes every zero digit for a trailing zero
DigitCounted_AnyZero(p, c) ==
    IF p.mantissa = 0 THEN p
    ELSE [p EXCEPT !.digits = @ + 1, !.zeros = IF c = 48 THEN @ + 1 ELSE 0]

\* the precision digits counted once the mantissa is not zero
DigitCounted(p, c) ==
    IF p.mantissa = 0 THEN p
    ELSE [p EXCEPT !.digits = @ + 1,
                   !.zeros = IF p.found_point /\ c = 48 THEN @ + 1 ELSE 0]

ScanDigit(p, c) ==
    DigitCounted([p EXCEPT !.mantissa = @ * 10 + (c - 48),
                           !.exp10 = IF p.found_point THEN @ - 1 ELSE @], c)

ScanMantissa(p, c, allow_nonnum) ==
    IF IsDigit(c) THEN ScanDigit(p, c)
    ELSE IF c = 46 THEN [p EXCEPT !.found_point = TRUE]
    ELSE IF Upper(c) \in {68, 69}
    THEN [p EXCEPT !.found_exp = TRUE, !.is_double = (Upper(c) = 68)]
    ELSE IF c = 33 THEN [p EXCEPT !.is_single = TRUE, !.ctl = "break"]
    ELSE IF c = 35 THEN [p EXCEPT !.is_double = TRUE, !.ctl = "break"]
    ELSE NonNumeric(p, allow_nonnum)

ScanExponent(p, c, allow_nonnum) ==
    IF IsDigit(c) THEN [p EXCEPT !.exponent = @ * 10 + (c - 48)]
    ELSE NonNumeric(p, allow_nonnum)

\* the character after the sign test; p.found_sign holds
ScanBody(p, c, allow_nonnum) ==
    IF ~p.found_exp THEN ScanMantissa(p, c, allow_nonnum)
    ELSE IF ~p.found_exp_sign /\ IsSign(c)
    THEN [p EXCEPT !.found_exp_sign = TRUE, !.exp_neg = (c = 45)]
    ELSE ScanExponent([p EXCEPT !.found_exp_sign = TRUE], c, allow_nonnum)

\* a turn that skips blanks only before the number has started
ScanChar_LeadingBlanks(p, c, allow_nonnum) ==
    IF c \in BLANKS /\ ~p.found_sign THEN p
    ELSE IF c \in SEPARATORS THEN [p EXCEPT !.ctl = "zero"]
    ELSE IF ~p.found_sign /\ IsSign(c)
    THEN [p EXCEPT !.found_sign = TRUE, !.neg = (c = 45)]
    ELSE ScanBody([p EXCEPT !.found_sign = TRUE], c, allow_nonnum)

\* one turn of the loop over s
ScanChar(p, c, allow_nonnum) ==
    IF c \in BLANKS THEN p
    ELSE IF c \in SEPARATORS THEN [p EXCEPT !.ctl = "zero"]
    ELSE IF ~p.found_sign /\ IsSign(c)
    THEN [p EXCEPT !.found_sign = TRUE, !.neg = (c = 45)]
    ELSE ScanBody([p EXCEPT !.found_sign = TRUE], c, allow_nonnum)

RECURSIVE ScanLoop(_, _, _, _)
ScanLoop(p, s, i, allow_nonnum) ==
    IF p.ctl # "scan" \/ i > Len(s) THEN p
    ELSE ScanLoop(ScanChar(p, s[i], allow_nonnum), s, i + 1, allow_nonnum)

\* what str_to_decimal returns: is_double, mantissa, exp10
Parsed(is_double, mantissa, exp10) ==
    [sig |-> "none", is_double |-> is_double, mantissa |-> mantissa,
     exp10 |-> exp10]

ParseFailed == [sig |-> "ValueError"]

\* the statements after the loop
ScanResult(p) ==
    IF p.ctl = "zero" THEN Parsed(FALSE, 0, 0)
    ELSE IF p.ctl = "raise" THEN ParseFailed
    ELSE Parsed(p.is_double \/ (p.digits - p.zeros > 7 /\ ~p.is_single),
                IF p.neg THEN -p.mantissa ELSE p.mantissa,
                IF p.exp_neg THEN p.exp10 - p.exponent ELSE p.exp10 + p.exponent)

str_to_decimal(s, allow_nonnum) == ScanResult(ScanLoop(ScanStart, s, 1, allow_nonnum))


(***************************************************************************)
(* Decimal to string.                                                      *)
(***************************************************************************)
sigil(t) == IF t = "Single" THEN <<33>> ELSE <<35>>

exp_sign(t) == IF t = "Single" THEN <<69>> ELSE <<68>>

digits(t) == IF t = "Single" THEN 7 ELSE 16

\* '0' * n, empty for n <= 0
ZeroChars(n) == [k \in 1 .. n |-> 48]

\* s[:n] and s[n:] for n >= 0
Left(s, n) == SubSeq(s, 1, Min(n, Len(s)))

Right(s, n) == SubSeq(s, n + 1, Len(s))

\* s.rstrip('0')
RECURSIVE RStripZeros(_)
RStripZeros(s) ==
    IF s # <<>> /\ s[Len(s)] = 48 THEN RStripZeros(SubSeq(s, 1, Len(s) - 1)) ELSE s

\* quotient and remainder of the bytes a[1 .. i] with carry rem by d
DivJoin(rest, qb) == [q |-> rest.q \o <<qb>>, r |-> rest.r]

RECURSIVE DivSmallFrom(_, _, _, _)
DivSmallFrom(a, i, rem, d) ==
    IF i = 0 THEN [q |-> <<>>, r |-> rem]
    ELSE DivJoin(DivSmallFrom(a, i - 1, (rem * 256 + a[i]) % d, d),
                 (rem * 256 + a[i]) \div d)

TenthOf(qr) == [mag |-> BNorm(qr.q), last |-> qr.r]

\* the decimal digits of 10 * n.mag + n.last
RECURSIVE DigitsOf(_)
DigitsOf(n) ==
    IF n.mag = <<>> THEN <<48 + n.last>>
    ELSE DigitsOf(TenthOf(DivSmallFrom(n.mag, Len(n.mag), 0, 10))) \o <<48 + n.last>>

\* str(abs(num))
StrAbs(mag) ==
    IF mag = <<>> THEN <<48>>
    ELSE DigitsOf(TenthOf(DivSmallFrom(mag, Len(mag), 0, 10)))

\* '0'*(digits-len(digitstr)) + digitstr[:digits]
Padded(digitstr, ndigits) ==
    ZeroChars(ndigits - Len(digitstr)) \o Left(digitstr, ndigits)

get_digits(mag, ndigits, remove_trailing) ==
    IF remove_trailing THEN RStripZeros(Padded(StrAbs(mag), ndigits))
    ELSE Padded(StrAbs(mag), ndigits)

\* the digits and the point of scientific_notation
SciDigits(digitstr, digits_to_dot, force_dot) ==
    IF Len(digitstr) > digits_to_dot
    THEN Left(digitstr, digits_to_dot) \o <<46>> \o Right(digitstr, digits_to_dot)
    ELSE IF Len(digitstr) = digits_to_dot /\ force_dot
    THEN Left(digitstr, digits_to_dot) \o <<46>>
    ELSE Left(digitstr, digits_to_dot)

\* the marker, the sign and the two digits of the exponent
SciExponent(exponent, marker) ==
    marker \o (IF exponent < 0 THEN <<45>> ELSE <<43>>)
           \o get_digits(BFromNat(Abs(exponent)), 2, FALSE)

scientific_notation(digitstr, exp10, marker, digits_to_dot, force_dot) ==
    SciDigits(digitstr, digits_to_dot, force_dot)
        \o SciExponent(exp10 - digits_to_dot + 1, marker)

\* valstr += type_sign if type_sign == '#'
DoubleSign(type_sign) == IF type_sign = <<35>> THEN type_sign ELSE <<>>

\* decimal_notation after exp10 += 1
DecimalPointed(digitstr, exp10, type_sign, force_dot) ==
    IF exp10 >= Len(digitstr)
    THEN digitstr \o ZeroChars(exp10 - Len(digitstr))
            \o (IF force_dot THEN <<46>> ELSE <<>>)
            \o (IF ~force_dot \/ type_sign = <<35>> THEN type_sign ELSE <<>>)
    ELSE IF exp10 > 0
    THEN Left(digitstr, exp10) \o <<46>> \o Right(digitstr, exp10)
            \o DoubleSign(type_sign)
    ELSE (IF force_dot THEN <<48>> ELSE <<>>) \o <<46>> \o ZeroChars(-exp10)
            \o digitstr \o DoubleSign(type_sign)

decimal_notation(digitstr, exp10, type_sign, force_dot) ==
    DecimalPointed(digitstr, exp10 + 1, type_sign, force_dot)

\* the choice of notation in to_str, exp10 already raised by ndigits - 1
Notated(t, digitstr, exp10, type_sign) ==
    IF exp10 > digits(t) - 1 \/ Len(digitstr) - exp10 > digits(t) + 1
    THEN scientific_notation(digitstr, exp10, exp_sign(t), 1, FALSE)
    ELSE decimal_notation(digitstr, exp10,
                          IF type_sign THEN sigil(t) ELSE <<>>, FALSE)

\* sign or leading space
SignChars(neg, leading_space) ==
    IF neg THEN <<45>> ELSE IF leading_space THEN <<32>> ELSE <<>>

\* to_str of a nonzero value whose to_decimal() is d
StrOfDecimal(t, d, type_sign) ==
    Notated(t, get_digits(d.num.mag, digits(t), TRUE), d.exp10 + digits(t) - 1,
            type_sign)

Float_to_str(t, b, leading_space, type_sign) ==
    IF Float_is_zero(b)
    THEN (IF leading_space THEN <<32>> ELSE <<>>) \o <<48>>
            \o (IF type_sign THEN sigil(t) ELSE <<>>)
    ELSE SignChars(Float_is_negative(b), leading_space)
            \o StrOfDecimal(t, Float_to_decimal(t, b), type_sign)


(***************************************************************************)
(* The parsing machine: str_to_decimal is applied to a byte string in     *)
(* lenient (allow_nonnum) or strict mode.                                  *)
(***************************************************************************)
\* "1", "-123.45", "1.23E+10", "3.14159D+00"
Canonical ==
    {<<49>>, <<45, 49, 50, 51, 46, 52, 53>>,
     <<49, 46, 50, 51, 69, 43, 49, 48>>,
     <<51, 46, 49, 52, 49, 53, 57, 68, 43, 48, 48>>}

\* "1234567", "12345678", "10000000", "00012345", "0.1234567", "1234567.0",
\* "1.0000000", "1.0000001", "1234.5678", ".00000001", "1000000.0"
LongHeads ==
    {<<49, 50, 51, 52, 53, 54, 55>>, <<49, 50, 51, 52, 53, 54, 55, 56>>,
     <<49, 48, 48, 48, 48, 48, 48, 48>>, <<48, 48, 48, 49, 50, 51, 52, 53>>,
     <<48, 46, 49, 50, 51, 52, 53, 54, 55>>,
     <<49, 50, 51, 52, 53, 54, 55, 46, 48>>,
     <<49, 46, 48, 48, 48, 48, 48, 48, 48>>,
     <<49, 46, 48, 48, 48, 48, 48, 48, 49>>,
     <<49, 50, 51, 52, 46, 53, 54, 55, 56>>,
     <<46, 48, 48, 48, 48, 48, 48, 48, 49>>,
     <<49, 48, 48, 48, 48, 48, 48, 46, 48>>}

\* "1E8", "1D5!", "1E5#", "1D5", "1E5", "1e-5", "1d+5", "-1.5E+2",
\* "123456789!", "1#", "12345678E1", "1234567E1", "1.2345678e-1"
Marked ==
    {<<49, 50, 51, 52, 53, 54, 55, 56, 69, 49>>,
     <<49, 50, 51, 52, 53, 54, 55, 69, 49>>,
     <<49, 46, 50, 51, 52, 53, 54, 55, 56, 101, 45, 49>>,
     <<49, 50, 51, 52, 53, 54, 55, 56, 57, 33>>, <<49, 35>>, <<49, 69, 56>>, <<49, 68, 53, 33>>, <<49, 69, 53, 35>>, <<49, 68, 53>>,
     <<49, 69, 53>>, <<49, 101, 45, 53>>, <<49, 100, 43, 53>>,
     <<45, 49, 46, 53, 69, 43, 50>>}

MaxLen == 3

\* 0 1 . E D - ! # x, the blanks and the separators
Alphabet == {48, 49, 46, 69, 68, 45, 33, 35, 120} \cup BLANKS \cup SEPARATORS

Strings(n) == UNION {[1 .. k -> Alphabet] : k \in 0 .. n}

\* s with one more character at any one place
Grown(s) ==
    {SubSeq(s, 1, i) \o <<c>> \o SubSeq(s, i + 1, Len(s)) :
        i \in 0 .. Len(s), c \in Alphabet}

ParseInputs ==
    Strings(MaxLen)
        \cup {h \o t : h \in LongHeads, t \in Strings(1)}
        \cup UNION {Grown(s) \cup {s} : s \in Canonical \cup Marked}

ParseInit ==
    /\ kind = "str"
    /\ buf \in ParseInputs
    /\ op = "new"
    /\ rhs = NoValue
    /\ arg = 0
    /\ pre = buf
    /\ signal = "none"
    /\ carried = NoValue
    /\ result = "self"
    /\ object = NoValue
    /\ steps = 0
    /\ NoAudio

\* the outcome of a call that returns a tuple or raises ValueError
Returned(s, r) ==
    [buf |-> s, sig |-> r.sig, val |-> NoValue,
     ret |-> IF r.sig = "none" THEN "tuple" ELSE "raised",
     obj |-> IF r.sig = "none" THEN r ELSE NoValue]

StrToDecimal ==
    /\ kind = "str"
    /\ \E allow_nonnum \in BOOLEAN :
          Called("str_to_decimal", NoValue, allow_nonnum,
                 Returned(buf, str_to_decimal(buf, allow_nonnum)))

ParseNext == StrToDecimal \/ Discard

SpecParse == ParseInit /\ [][ParseNext]_vars

ParseCall == kind = "str" /\ op = "str_to_decimal"

\* the type that the parse selects
Selected(r) == IF r.is_double THEN "Double" ELSE "Single"

\* the bytes of the Single or Double that from_decimal builds from a parse
BuiltFrom(r) ==
    {Float_from_decimal(t, Zeroes(Size(t)), r.mantissa < 0, mag, r.exp10).buf :
        t \in {Selected(r)}, mag \in {BFromNat(Abs(r.mantissa))}}

\* C14: parsing a canonical literal with str_to_decimal, building the Single
\* or Double that the parse selects with from_decimal and formatting it with
\* to_str (no leading space, no type sigil) reproduces the literal, for each
\* of "1", "-123.45", "1.23E+10" and "3.14159D+00".
C14_FormatRoundTrip ==
    (ParseCall /\ buf \in Canonical) =>
        /\ signal = "none"
        /\ \A b \in BuiltFrom(object) :
              Float_to_str(Selected(object), b, FALSE, FALSE) = buf


(***************************************************************************)
(* What a literal denotes, read off its characters: sign, digits before    *)
(* and after the point, exponent marker, exponent sign and digits.         *)
(***************************************************************************)
\* the place of the first character of s that is in cs, or Len(s) + 1
RECURSIVE FirstAt(_, _, _)
FirstAt(s, i, cs) ==
    IF i > Len(s) \/ s[i] \in cs THEN i ELSE FirstAt(s, i + 1, cs)

\* D, E, d, e
MarkerAt(s) == FirstAt(s, 1, {68, 69, 100, 101})

PointAt(s) == FirstAt(s, 1, {46})

Unsigned(s) == IF s # <<>> /\ IsSign(s[1]) THEN Tail(s) ELSE s

Negative(s) == s # <<>> /\ s[1] = 45

ManPart(s) == SubSeq(s, 1, MarkerAt(s) - 1)

ExpPart(s) == SubSeq(s, MarkerAt(s) + 1, Len(s))

IntDigits(s) == Left(Unsigned(ManPart(s)), PointAt(Unsigned(ManPart(s))) - 1)

FracDigits(s) == Right(Unsigned(ManPart(s)), PointAt(Unsigned(ManPart(s))))

ExpDigits(s) == Unsigned(ExpPart(s))

AllDigits(q) == \A i \in 1 .. Len(q) : IsDigit(q[i])

HasMarker(s) == MarkerAt(s) <= Len(s)

\* [sign] digits [. digits] [marker [sign] digits], with a digit in each part
IsLiteral(s) ==
    /\ AllDigits(IntDigits(s)) /\ AllDigits(FracDigits(s))
    /\ Len(IntDigits(s)) + Len(FracDigits(s)) >= 1
    /\ HasMarker(s) => (AllDigits(ExpDigits(s)) /\ ExpDigits(s) # <<>>)

RECURSIVE NatOf(_)
NatOf(q) ==
    IF q = <<>> THEN 0 ELSE NatOf(SubSeq(q, 1, Len(q) - 1)) * 10 + (q[Len(q)] - 48)

LeadingZeros(q) == FirstAt(q, 1, 49 .. 57) - 1

TrailingZeros(q) == Len(q) - Len(RStripZeros(q))

\* digits from the first nonzero one, less the zeros that end the fraction
SigDigits(s) ==
    IF LeadingZeros(IntDigits(s) \o FracDigits(s))
          = Len(IntDigits(s) \o FracDigits(s))
    THEN 0
    ELSE Len(IntDigits(s) \o FracDigits(s))
            - LeadingZeros(IntDigits(s) \o FracDigits(s))
            - TrailingZeros(FracDigits(s))

UsesD(s) == HasMarker(s) /\ Upper(s[MarkerAt(s)]) = 68

\* the value of the literal as an integer and a power of ten
LitMantissa(s) ==
    IF Negative(ManPart(s)) THEN -NatOf(IntDigits(s) \o FracDigits(s))
    ELSE NatOf(IntDigits(s) \o FracDigits(s))

LitExp10(s) ==
    (IF Negative(ExpPart(s)) THEN -NatOf(ExpDigits(s)) ELSE NatOf(ExpDigits(s)))
        - Len(FracDigits(s))

\* m1 * 10^e1 = m2 * 10^e2
SameDecimal(m1, e1, m2, e2) ==
    IF e1 >= e2 THEN m1 * 10 ^ (e1 - e2) = m2 ELSE m1 = m2 * 10 ^ (e2 - e1)

\* C15: for a literal without a sigil, is_double holds iff the literal uses
\* the D exponent marker or has eight or more significant digits (leading
\* zeros and the zeros that end the fraction not counted), and mantissa *
\* 10^exp10 is the literal's decimal value; "1E8" gives (false, 1, 8),
\* "12345678" gives is_double and "1.0000000" does not.
C15_PrecisionPromotion ==
    /\ (ParseCall /\ IsLiteral(buf)) =>
          /\ signal = "none"
          /\ object.is_double = (UsesD(buf) \/ SigDigits(buf) >= 8)
          /\ SameDecimal(object.mantissa, object.exp10,
                         LitMantissa(buf), LitExp10(buf))
    /\ (ParseCall /\ buf = <<49, 69, 56>>) => object = Parsed(FALSE, 1, 8)
    /\ (ParseCall /\ buf = <<49, 50, 51, 52, 53, 54, 55, 56>>) =>
          (signal = "none" /\ object.is_double)
    /\ (ParseCall /\ buf = <<49, 46, 48, 48, 48, 48, 48, 48, 48>>) =>
          (signal = "none" /\ ~object.is_double)

\* "1.0000000" parsed: eight digits, seven of them zeros after the point
C15_Witness ==
    /\ ParseCall
    /\ buf = <<49, 46, 48, 48, 48, 48, 48, 48, 48>>
    /\ IsLiteral(buf)
    /\ SigDigits(buf) = 1
    /\ object = Parsed(FALSE, 10000000, -7)


\* s without its last character
Front(s) == SubSeq(s, 1, Len(s) - 1)

\* a literal followed by '!' or '#'
EndsInSigil(s) == s # <<>> /\ s[Len(s)] \in {33, 35} /\ IsLiteral(Front(s))

\* C16: a sigil that ends a literal forces the precision, whatever precedes
\* it: '!' gives is_double = false and '#' gives is_double = true, after the
\* mantissa digits or after an exponent part, and in strict mode the sigil
\* signals no error.
C16_SigilForces ==
    (ParseCall /\ EndsInSigil(buf)) =>
        /\ signal = "none"
        /\ object.is_double = (buf[Len(buf)] = 35)


HasSeparator(s) == \E i \in 1 .. Len(s) : s[i] \in SEPARATORS

\* C17: if a separator byte (0x1C, 0x1D, 0x1F) occurs anywhere in the input,
\* str_to_decimal returns (false, 0, 0) in lenient and in strict mode,
\* whatever stands before or after it.
C17_SeparatorGivesZero ==
    (ParseCall /\ HasSeparator(buf)) =>
        (signal = "none" /\ object = Parsed(FALSE, 0, 0))


\* the characters that numbers are written with: digits, signs, the point,
\* the exponent markers and the sigils
NumericChars == (48 .. 57) \cup {43, 45, 46, 68, 69, 100, 101, 33, 35}

\* the place of the first character that is neither numeric, blank nor
\* separator, or Len(s) + 1
ForeignAt(s) == FirstAt(s, 1, (0 .. 255) \ (NumericChars \cup BLANKS \cup SEPARATORS))

HasForeign(s) == ForeignAt(s) <= Len(s)

\* C18: in lenient mode str_to_decimal signals no error; at the first
\* character that is not part of the numeric syntax it stops and returns what
\* it returns for the prefix before that character.  In strict mode the same
\* character makes it signal the malformed-input error, and a string without
\* such a character is accepted.
C18_LenientStopsStrictSignals ==
    /\ (ParseCall /\ arg = TRUE) =>
          /\ signal = "none"
          /\ HasForeign(buf) =>
                object = str_to_decimal(SubSeq(buf, 1, ForeignAt(buf) - 1), TRUE)
    /\ (ParseCall /\ arg = FALSE /\ HasForeign(buf) /\ ~HasSeparator(buf)) =>
          signal = "ValueError"
    /\ (ParseCall /\ arg = FALSE /\ IsLiteral(buf)) => signal = "none"


NotBlank(c) == c \notin BLANKS

\* s with all blanks removed
Unblanked(s) == SelectSeq(s, NotBlank)

\* C19: blanks (space, tab, line feed) are ignored at every position: in
\* both modes the result returned, or the error signalled, for s is that for
\* s with all blanks removed.
C19_BlanksIgnored ==
    ParseCall =>
        \A r \in {str_to_decimal(Unblanked(buf), arg)} :
            /\ signal = r.sig
            /\ signal = "none" => object = r

\* "- 123.45", a blank between the sign and the digits
C19_Witness ==
    /\ ParseCall
    /\ buf = <<45, 32, 49, 50, 51, 46, 52, 53>>
    /\ Unblanked(buf) = <<45, 49, 50, 51, 46, 52, 53>>
    /\ object = Parsed(FALSE, -12345, -2)


(***************************************************************************)
(* The conversion machine: an Integer takes from_int of a Python int,      *)
(* signed or unsigned, and to_int reads it back.                           *)
(***************************************************************************)
FromEdge == 2

\* the ends of the signed and unsigned ranges, and of these less 65536
FromInts ==
    {e + d : e \in {-98304, -65536, -32768, 0, 32767, 65535},
             d \in (-FromEdge) .. FromEdge} \cup {-40000, 40000}

IntFromInt ==
    /\ kind = "Integer"
    /\ \E v \in FromInts, unsigned \in BOOLEAN :
          Called("from_int", NoValue, [v |-> v, unsigned |-> unsigned],
                 Integer_from_int(buf, v, unsigned))

\* to_int leaves the receiver alone and returns a Python int
IntToInt ==
    /\ kind = "Integer"
    /\ \E unsigned \in BOOLEAN :
          Called("to_int", NoValue, unsigned,
                 [buf |-> buf, sig |-> "none", val |-> NoValue, ret |-> "int",
                  obj |-> Integer_to_int(buf, unsigned)])

FromIntNext == IntFromInt \/ IntToInt \/ Discard

SpecFromInt == IntInit /\ [][FromIntNext]_vars

\* v is inside the range that from_int takes
InFromRange(v, unsigned) ==
    -32768 <= v /\ v <= (IF unsigned THEN 65535 ELSE 32767)

\* C20: from_int(v, unsigned) signals Overflow, and no other failure, exactly
\* when v is outside [-32768, 32767] (signed) or [-32768, 65535] (unsigned);
\* inside the range it stores the two's complement of v, so that to_int()
\* returns the signed and to_int(unsigned) the unsigned reading of
\* v mod 65536.
C20_FromIntOverflowIff ==
    IntCall("from_int") =>
        /\ signal \in {"none", "Overflow"}
        /\ (signal = "Overflow") <=> ~InFromRange(arg.v, arg.unsigned)
        /\ signal = "none" =>
              /\ Integer_to_int(buf, TRUE) = PyMod(arg.v, 65536)
              /\ Integer_to_int(buf, FALSE) = PyMod(arg.v + 32768, 65536) - 32768


(***************************************************************************)
(* The token codec.  A token is a sequence of bytes, the tag first.  The   *)
(* tag values are those of the tokens module (tk).                         *)
(***************************************************************************)
T_OCT == 11
T_HEX == 12
T_UINT == 14
T_BYTE == 15
C_0 == 17
C_10 == 27
T_INT == 28
T_SINGLE == 29
T_DOUBLE == 31

\* token[-n:]
LastBytes(token, n) == SubSeq(token, Len(token) - n + 1, Len(token))

\* a to_token that writes the one-byte token of every value up to ten
Integer_to_token_WriteTen(b) ==
    IF b[2] = 0
    THEN IF b[1] <= 10 THEN <<C_0 + b[1]>> ELSE <<T_BYTE, b[1]>>
    ELSE <<T_INT>> \o b

Integer_to_token(b) ==
    IF b[2] = 0
    THEN IF b[1] < 10 THEN <<C_0 + b[1]>> ELSE <<T_BYTE, b[1]>>
    ELSE <<T_INT>> \o b

Integer_to_token_linenum(b) == <<T_UINT>> \o b

Integer_to_token_hex(b) == <<T_HEX>> \o b

Integer_to_token_oct(b) == <<T_OCT>> \o b

\* a from_token that takes the token's second byte for the constant
Integer_from_token_NoConstant(b, token) ==
    IF token[1] \in {T_OCT, T_HEX, T_INT, T_UINT}
    THEN Return(LastBytes(token, 2), "self")
    ELSE IF token[1] = T_BYTE \/ (C_0 <= token[1] /\ token[1] <= C_10)
    THEN Return(<<token[Len(token)], 0>>, "self")
    ELSE Raise(b, "ValueError", NoValue)

Integer_from_token(b, token) ==
    IF token[1] \in {T_OCT, T_HEX, T_INT, T_UINT}
    THEN Return(LastBytes(token, 2), "self")
    ELSE IF token[1] = T_BYTE THEN Return(<<token[Len(token)], 0>>, "self")
    ELSE IF C_0 <= token[1] /\ token[1] <= C_10
    THEN Return(<<token[1] - 17, 0>>, "self")
    ELSE Raise(b, "ValueError", NoValue)

\* T_SINGLE for a Single, T_DOUBLE for a Double
FloatTag(t) == IF t = "Single" THEN T_SINGLE ELSE T_DOUBLE

Float_to_token(t, b) == <<FloatTag(t)>> \o b

Float_from_token(t, b, token) ==
    IF token[1] # FloatTag(t) THEN Raise(b, "ValueError", NoValue)
    ELSE Return(LastBytes(token, Size(t)), "self")

Number_to_token(t, b) ==
    IF t = "Integer" THEN Integer_to_token(b) ELSE Float_to_token(t, b)

Number_from_token(t, b, token) ==
    IF t = "Integer" THEN Integer_from_token(b, token)
    ELSE Float_from_token(t, b, token)


(***************************************************************************)
(* The token machine: a value writes its token, or takes its bytes from a  *)
(* token.                                                                  *)
(***************************************************************************)
TokSmall == 16

TokInts ==
    (0 .. TokSmall) \cup {100, 127, 128, 254, 255, 256, 257, 32767}
        \cup {-1, -2, -255, -256, -32768}

TokBufs(t) == IF t = "Integer" THEN {PackInt16(v) : v \in TokInts} ELSE FSeeds(t)

\* tokens of each form, and tokens with a tag that no type takes
Tokens ==
    {Integer_to_token(PackInt16(v)) : v \in {0, 9, 10, 11, 255, 256, -1}}
        \cup {Integer_to_token_linenum(<<57, 48>>), Integer_to_token_hex(<<255, 255>>),
              Integer_to_token_oct(<<8, 0>>), <<C_10>>,
              Float_to_token("Single", <<0, 0, 32, 132>>),
              Float_to_token("Double", <<1, 2, 3, 4, 5, 6, 7, 129>>),
              <<0>>, <<16, 1>>, <<255, 1, 2, 3, 4, 5, 6, 7, 8>>}

TokInit ==
    /\ kind \in {"Integer", "Single", "Double"}
    /\ buf \in TokBufs(kind)
    /\ op = "new"
    /\ rhs = NoValue
    /\ arg = 0
    /\ pre = buf
    /\ signal = "none"
    /\ carried = NoValue
    /\ result = "self"
    /\ object = NoValue
    /\ steps = 0
    /\ NoAudio

\* the outcome of a method that returns bytes and leaves the receiver alone
ReturnBytes(b, token) ==
    [buf |-> b, sig |-> "none", val |-> NoValue, ret |-> "bytes", obj |-> token]

ToToken == Called("to_token", NoValue, 0, ReturnBytes(buf, Number_to_token(kind, buf)))

ToTokenLinenum ==
    /\ kind = "Integer"
    /\ Called("to_token_linenum", NoValue, 0,
              ReturnBytes(buf, Integer_to_token_linenum(buf)))

ToTokenHex ==
    /\ kind = "Integer"
    /\ Called("to_token_hex", NoValue, 0, ReturnBytes(buf, Integer_to_token_hex(buf)))

ToTokenOct ==
    /\ kind = "Integer"
    /\ Called("to_token_oct", NoValue, 0, ReturnBytes(buf, Integer_to_token_oct(buf)))

FromToken ==
    \E token \in Tokens :
        Called("from_token", NoValue, token, Number_from_token(kind, buf, token))

TokNext ==
    ToToken \/ ToTokenLinenum \/ ToTokenHex \/ ToTokenOct \/ FromToken \/ Discard

SpecToken == TokInit /\ [][TokNext]_vars

\* C21: Integer.to_token writes every value from 0 to 10 as the one-byte
\* token whose tag carries the value, every value from 11 to 255 as the
\* one-byte-magnitude tag and one byte, and every other value as the
\* two-byte signed tag and the two native bytes.
C21_TokenForms ==
    IntCall("to_token") =>
        /\ (0 <= IntR /\ IntR <= 10) => object = <<C_0 + IntR>>
        /\ (11 <= IntR /\ IntR <= 255) => object = <<T_BYTE, IntR>>
        /\ (IntR < 0 \/ IntR > 255) => object = <<T_INT>> \o buf

\* C21 as amended: the one-byte tokens are written for 0 to 9 only, and ten
\* is written with the one-byte-magnitude tag like the values up to 255.
C21_TokenFormsToNine ==
    IntCall("to_token") =>
        /\ (0 <= IntR /\ IntR <= 9) => object = <<C_0 + IntR>>
        /\ (10 <= IntR /\ IntR <= 255) => object = <<T_BYTE, IntR>>
        /\ (IntR < 0 \/ IntR > 255) => object = <<T_INT>> \o buf

\* ten written as two bytes
C21_Witness ==
    /\ IntCall("to_token")
    /\ IntR = 10
    /\ object = <<T_BYTE, 10>>


TokenWritten ==
    op \in {"to_token", "to_token_linenum", "to_token_hex", "to_token_oct"}

NumberKinds == {"Integer", "Single", "Double"}

\* the types whose from_token takes the token
Takers(token) ==
    {t \in NumberKinds : Number_from_token(t, Zeroes(Size(t)), token).sig = "none"}

Float_to_int_den(t, b) ==
    LET d == Float_denormalise(b)
        e == d.exp - Bias(t)
    IN  [man |-> IF e > 0 THEN BShl(d.man, e) ELSE BShr(d.man, -e),
         neg |-> d.neg]

\* -(man >> 8) if neg else man >> 8
SignedShifted(man, neg) ==
    [neg |-> neg /\ BShr(man, 8) # <<>>, mag |-> BShr(man, 8)]

\* C27 mutant: the carry is discarded, as to_int_truncate does
HalfCarried_Dropped(man) == man

\* if man & 0x80: man += 0x80
HalfCarried(man) == IF BBit(man, 7) = 1 THEN BAdd(man, <<128>>) ELSE man

Float_to_int_of(md) == SignedShifted(HalfCarried(md.man), md.neg)

Float_to_int(t, b) == Float_to_int_of(Float_to_int_den(t, b))

Float_to_int_truncate_of(md) == SignedShifted(md.man, md.neg)

Float_to_int_truncate(t, b) == Float_to_int_truncate_of(Float_to_int_den(t, b))

Float_from_pyint(t, b, n) == Float_from_int(t, b, n.neg, n.mag)

Float_iround(t, b) == Float_from_pyint(t, b, Float_to_int(t, b))

Float_itrunc(t, b) == Float_from_pyint(t, b, Float_to_int_truncate(t, b))

\* self.itrunc().isub(one) when the receiver is negative; the value of the
\* chain is dropped and self returned
FloorChained(t, neg, out) ==
    IF out.sig # "none" \/ ~neg THEN out
    ELSE Float_isub(t, out.buf, one(t))

Float_ifloor(t, b) == FloorChained(t, Float_is_negative(b), Float_itrunc(t, b))

\* Integer.iround, itrunc and ifloor have a docstring and no body
Integer_iround(b) == Return(b, "None")
Integer_itrunc(b) == Return(b, "None")
Integer_ifloor(b) == Return(b, "None")


(***************************************************************************)
(* The in-place machine: an Integer or a Float receiver, every in-place    *)
(* operation of its class, and the conversions to and from a Python int.   *)
(***************************************************************************)
\* Float receivers include n/2 for n within RoundSpan of 0
RoundSpan == 5

HalfOf(t, n) ==
    Float_idiv(t, Float_from_pyint(t, Zeroes(Size(t)), PyInt(n)).buf,
               Float_from_pyint(t, Zeroes(Size(t)), PyInt(2)).buf).buf

SingleHalves == {HalfOf("Single", n) : n \in (-RoundSpan) .. RoundSpan}
DoubleHalves == {HalfOf("Double", n) : n \in (-RoundSpan) .. RoundSpan}

RoundSeeds(t) ==
    IF t = "Single" THEN SingleHalves \cup SingleSeeds
    ELSE DoubleHalves \cup DoubleSeeds

\* Python ints at the ends of the 16-bit range, and some larger
RoundInts ==
    {-40000, -32769, -32768, -32767, -257, -256, -255, -2, -1, 0, 1, 2, 255,
     256, 257, 32766, 32767, 32768, 40000}

InPlaceInit ==
    /\ \/ kind = "Integer" /\ buf \in IntBufs
       \/ kind \in FloatKinds /\ buf \in RoundSeeds(kind)
    /\ op = "new"
    /\ rhs = NoValue
    /\ arg = 0
    /\ pre = buf
    /\ signal = "none"
    /\ carried = NoValue
    /\ result = "self"
    /\ object = NoValue
    /\ steps = 0
    /\ NoAudio

Iabs ==
    /\ kind = "Integer"
    /\ Called("iabs", NoValue, 0, Integer_iabs(buf))

Iround ==
    /\ kind = "Integer"
    /\ Called("iround", NoValue, 0, Integer_iround(buf))

Itrunc ==
    /\ kind = "Integer"
    /\ Called("itrunc", NoValue, 0, Integer_itrunc(buf))

Ifloor ==
    /\ kind = "Integer"
    /\ Called("ifloor", NoValue, 0, Integer_ifloor(buf))

Fabs ==
    /\ IsFloat
    /\ Called("iabs", NoValue, 0, Float_iabs(buf))

Fround ==
    /\ IsFloat
    /\ Called("iround", NoValue, 0, Float_iround(kind, buf))

Ftrunc ==
    /\ IsFloat
    /\ Called("itrunc", NoValue, 0, Float_itrunc(kind, buf))

Ffloor ==
    /\ IsFloat
    /\ Called("ifloor", NoValue, 0, Float_ifloor(kind, buf))

\* a call that leaves the receiver alone and returns the Python int n
ReturnInt(b, n) ==
    [buf |-> b, sig |-> "none", val |-> NoValue, ret |-> "int", obj |-> n]

FtoInt ==
    /\ IsFloat
    /\ Called("to_int", NoValue, 0, ReturnInt(buf, Float_to_int(kind, buf)))

FtoIntTruncate ==
    /\ IsFloat
    /\ Called("to_int_truncate", NoValue, 0,
              ReturnInt(buf, Float_to_int_truncate(kind, buf)))

FfromInt ==
    /\ IsFloat
    /\ \E n \in RoundInts :
          Called("from_int", NoValue, n, Float_from_pyint(kind, buf, PyInt(n)))

InPlaceNext ==
    \/ Ineg \/ Iabs \/ Iadd \/ Isub \/ IdivInt \/ Imod
    \/ Iround \/ Itrunc \/ Ifloor
    \/ Fneg \/ Fabs \/ Fround \/ Ftrunc \/ Ffloor
    \/ Fadd \/ Fsub \/ Fmul \/ Fdiv
    \/ FtoInt \/ FtoIntTruncate \/ FfromInt
    \/ Discard

SpecInPlace == InPlaceInit /\ [][InPlaceNext]_vars

InPlaceOps ==
    {"ineg", "iabs", "iadd", "isub", "idiv_int", "imod", "iround", "itrunc",
     "ifloor", "imul", "idiv"}

\* C23: every in-place operation that completes without signalling returns
\* the receiver itself (Integer ineg, iabs, iadd, isub, idiv_int, imod,
\* iround, itrunc, ifloor; Float ineg, iabs, iround, itrunc, ifloor, iadd,
\* isub, imul, idiv), whatever the operands.
C23_InPlaceReturnsSelf ==
    (op \in InPlaceOps /\ signal = "none") => result = "self"


(***************************************************************************)
(* Properties of rounding.  The value of a nonzero Float is its            *)
(* denormalised mantissa times 2^(exponent - bias - 8); the whole numbers  *)
(* next to it are read off the bits of that mantissa.                      *)
(***************************************************************************)
\* the binary exponent of the lowest bit of the denormalised mantissa
Scale(t, b) == b[Len(b)] - Bias(t) - 8

\* the whole part of the magnitude of the value, and whether a fraction is
\* left, whether that fraction is at least a half
WholePart(t, b) ==
    LET d == Float_denormalise(b)
        e == Scale(t, b)
    IN  IF Float_is_zero(b) THEN <<>>
        ELSE IF e >= 0 THEN BShl(d.man, e)
        ELSE BShr(d.man, -e)

HasFraction(t, b) ==
    /\ ~Float_is_zero(b)
    /\ Scale(t, b) < 0
    /\ BLow(Float_denormalise(b).man, -Scale(t, b)) # <<>>

HasHalf(t, b) ==
    /\ ~Float_is_zero(b)
    /\ Scale(t, b) < 0
    /\ BBit(Float_denormalise(b).man, -Scale(t, b) - 1) = 1

Signed(neg, mag) == [neg |-> neg /\ mag # <<>>, mag |-> mag]

\* the greatest whole number not above the value
FloorOf(t, b) ==
    IF Float_is_negative(b) /\ HasFraction(t, b)
    THEN Signed(TRUE, BAdd(WholePart(t, b), <<1>>))
    ELSE Signed(Float_is_negative(b), WholePart(t, b))

\* the value without its fraction
TruncOf(t, b) == Signed(Float_is_negative(b), WholePart(t, b))

\* the nearest whole number, a half going away from zero
NearestOf(t, b) ==
    Signed(Float_is_negative(b),
           IF HasHalf(t, b) THEN BAdd(WholePart(t, b), <<1>>)
           ELSE WholePart(t, b))

\* the Float of class t that holds the Python int n
FloatOf(t, n) == Float_from_pyint(t, Zeroes(Size(t)), n).buf

\* C25: Float.ifloor leaves the greatest whole number not above the original
\* value: -0.5 gives -1, -2.5 gives -3, a positive value loses its fraction
\* and a whole number stays as it is (the floor of -2 is -2).
C25_FloorIsGreatestBelow ==
    (FloatCall("ifloor") /\ signal = "none") =>
        buf = FloatOf(kind, FloorOf(kind, pre))

\* C27: to_int rounds to the nearest whole number, a half going away from
\* zero whatever the sign; to_int_truncate rounds toward zero; and to_int
\* gives n back after from_int(n) for every 16-bit n.
C27_ToIntRounds ==
    /\ FloatCall("to_int") => object = NearestOf(kind, buf)
    /\ FloatCall("to_int_truncate") => object = TruncOf(kind, buf)
    /\ (FloatCall("from_int") /\ InInt16(arg)) =>
          /\ signal = "none"
          /\ Float_to_int(kind, buf) = PyInt(arg)

\* C27 witness: to_int of -2.5 has returned -3
C27_Witness ==
    /\ FloatCall("to_int")
    /\ buf = HalfOf(kind, -5)
    /\ object = PyInt(-3)


(***************************************************************************)
(* The normalising machine: _normalise(exp, man, neg) on a Float, for      *)
(* denormalised mantissas around every rounding case.                      *)
(***************************************************************************)
\* guard bytes below, at and above the half
GuardBytes == {0, 1, 127, 128, 129, 255}

\* kept mantissa bits: even and odd, smallest and largest (all ones)
KeptBits(t) ==
    {<<lo>> \o [i \in 1..(Size(t) - 3) |-> mid] \o <<top>> :
        lo \in {0, 255}, mid \in {0, 255}, top \in {128, 255}}

\* mantissas with the leading bit set, den_mask - 1, and some below it
NormMans(t) ==
    {<<g>> \o k : g \in GuardBytes, k \in KeptBits(t)}
        \cup {[i \in 1..(Size(t) - 1) |-> 255] \o <<127>>}
        \cup {<<>>, <<1>>, <<128, 1>>, Zeroes(Size(t) - 1) \o <<64>>}

NormExps == {1, 128, 255}

NormInit ==
    /\ kind \in FloatKinds
    /\ buf \in {Zeroes(Size(kind)), one(kind)}
    /\ op = "new"
    /\ rhs = NoValue
    /\ arg = 0
    /\ pre = buf
    /\ signal = "none"
    /\ carried = NoValue
    /\ result = "self"
    /\ object = NoValue
    /\ steps = 0
    /\ NoAudio

Normalise ==
    /\ IsFloat
    /\ \E e \in NormExps, m \in NormMans(kind), n \in BOOLEAN :
          Called("_normalise", NoValue, Den(e, m, n),
                 Float_normalise(kind, Den(e, m, n)))

NormNext == Normalise \/ Discard

SpecNormalise == NormInit /\ [][NormNext]_vars

\* _normalise was called with a mantissa that needs no shift left
NormaliseCall ==
    /\ FloatCall("_normalise")
    /\ arg.exp > 0
    /\ BGe(arg.man, BSub(den_mask(kind), <<1>>))
    /\ BLt(arg.man, den_upper(kind))

\* the kept bits of the argument, and these plus one when the guard byte is
\* above 0x80, or is 0x80 and the lowest kept bit is 1
KeptOf(man) == BShr(man, 8)

GuardOf(man) == BByte(man, 1)

NearestEven(man) ==
    IF GuardOf(man) > 128 \/ (GuardOf(man) = 128 /\ BBit(man, 8) = 1)
    THEN BAdd(KeptOf(man), <<1>>)
    ELSE KeptOf(man)

\* the rounded bits overflow the mantissa
CarriesOut(t, man) == Len(NearestEven(man)) >= Size(t)

\* C26: _normalise rounds the guard byte to nearest, ties to even (above
\* 0x80 up, below 0x80 down, at 0x80 up exactly when the lowest kept bit is
\* 1); a carry out of the mantissa shifts it right and adds one to the
\* exponent; and denormalising the packed result gives the rounded bits with
\* the leading bit set above a zero guard byte.
C26_NormaliseNearestEven ==
    (NormaliseCall /\ signal = "none") =>
        \A r \in {NearestEven(arg.man)} :
            Float_denormalise(buf) =
                IF CarriesOut(kind, arg.man)
                THEN Den(arg.exp + 1, <<0>> \o BShr(r, 1), arg.neg)
                ELSE Den(arg.exp, <<0>> \o r, arg.neg)

\* C26 witness: a tie (guard byte 0x80) above all-ones kept bits has rounded
\* up, carried out and raised the exponent
C26_Witness ==
    /\ NormaliseCall
    /\ signal = "none"
    /\ GuardOf(arg.man) = 128
    /\ CarriesOut(kind, arg.man)
    /\ buf[Len(buf)] = arg.exp + 1


(***************************************************************************)
(* The sharing machine.  Here buf is the heap: the sequence of the buffers *)
(* allocated so far.  x owns buffer 1 and y buffer 2; object is the buffer *)
(* of c, the value that clone or add returned (0 before that).  arg names  *)
(* the receiver of the last call and rhs its right-hand operand; pre is    *)
(* the heap before the call.                                               *)
(***************************************************************************)
\* Value(None, values): a new zero-filled bytearray
Value_new(heap, t) ==
    [heap |-> Append(heap, Zeroes(Size(t))), ref |-> Len(heap) + 1]

\* from_bytes: self._buffer[:] = in_bytes copies the bytes into the receiver
Value_from_bytes(h, in_bytes) ==
    [heap |-> [h.heap EXCEPT ![h.ref] = in_bytes], ref |-> h.ref]

\* C24 mutant: the copy is built on the receiver's own buffer
Value_clone_Shared(heap, ref, t) == [heap |-> heap, ref |-> ref]

\* self.__class__(None, self._values).from_bytes(self._buffer)
Value_clone(heap, ref, t) == Value_from_bytes(Value_new(heap, t), heap[ref])

\* the binary operations of a class on the bytes of receiver and operand
BinaryOps == {"iadd", "isub", "imul", "idiv", "idiv_int", "imod", "gt", "eq"}

OpsOf(t) ==
    IF t = "Integer" THEN {"iadd", "isub", "idiv_int", "imod", "gt", "eq"}
    ELSE {"iadd", "isub", "imul", "idiv", "gt", "eq"}

Relation(name, t, b, r) ==
    IF name = "gt" THEN Number_gt(Val(t, b), Val(t, r))
    ELSE Number_eq(Val(t, b), Val(t, r))

Integer_binary(name, b, r) ==
    CASE name = "iadd" -> Integer_iadd(b, r)
      [] name = "isub" -> Integer_isub(b, r)
      [] name = "idiv_int" -> Integer_idiv_int(b, r)
      [] name = "imod" -> Integer_imod(b, r)
      [] OTHER -> Return(b, PyBool(Relation(name, "Integer", b, r)))

Float_binary(name, t, b, r) ==
    CASE name = "iadd" -> Float_iadd(t, b, r)
      [] name = "isub" -> Float_isub(t, b, r)
      [] name = "imul" -> Float_imul(t, b, r)
      [] name = "idiv" -> Float_idiv(t, b, r)
      [] OTHER -> Return(b, PyBool(Relation(name, t, b, r)))

Number_binary(name, t, b, r) ==
    IF t = "Integer" THEN Integer_binary(name, b, r)
    ELSE Float_binary(name, t, b, r)

Number_ineg(t, b) == IF t = "Integer" THEN Integer_ineg(b) ELSE Float_ineg(b)

ShareInts == {PackInt16(v) : v \in {-32768, -1, 0, 1, 2, 32767}}

ShareBufs(t) == IF t = "Integer" THEN ShareInts ELSE FSeeds(t)

ShareInit ==
    /\ kind \in NumberKinds
    /\ \E bx \in ShareBufs(kind), by \in ShareBufs(kind) : buf = <<bx, by>>
    /\ op = "new"
    /\ rhs = NoValue
    /\ arg = 0
    /\ pre = buf
    /\ signal = "none"
    /\ carried = NoValue
    /\ result = "self"
    /\ object = 0
    /\ steps = 0
    /\ NoAudio

\* the buffer a name refers to; 0 when c has no value yet
Ref(n) == IF n = "x" THEN 1 ELSE IF n = "y" THEN 2 ELSE object

Bound == {n \in {"x", "y", "c"} : Ref(n) # 0}

\* a call on the receiver named n: its outcome is written to n's buffer
SharedCall(name, n, r, heap, out) ==
    /\ steps' = steps + 1
    /\ UNCHANGED audioVars
    /\ op' = name
    /\ arg' = n
    /\ rhs' = r
    /\ pre' = buf
    /\ buf' = heap
    /\ signal' = out.sig
    /\ carried' = out.val
    /\ result' = out.ret
    /\ UNCHANGED kind

\* c = x.clone()
Clone ==
    /\ steps < MaxSteps
    /\ object = 0
    /\ \E h \in {Value_clone(buf, Ref("x"), kind)} :
          /\ SharedCall("clone", "x", NoValue, h.heap, Return(<<>>, "new"))
          /\ object' = h.ref

\* x.add(y) calls iadd on the clone h of x; what iadd does to its receiver
\* is written to the buffer of that clone
AddOn(h, out) ==
    /\ SharedCall("add", "x", "y", [h.heap EXCEPT ![h.ref] = out.buf],
                  [out EXCEPT !.ret = IF out.sig = "none" THEN "new" ELSE @])
    /\ object' = IF out.sig = "none" THEN h.ref ELSE 0

\* r = x.add(y): self.clone().iadd(rhs); held in c when it returns
Add ==
    /\ steps < MaxSteps
    /\ object = 0
    /\ \E h \in {Value_clone(buf, Ref("x"), kind)} :
          AddOn(h, Number_binary("iadd", kind, h.heap[h.ref], h.heap[Ref("y")]))

\* n.name(m) for two names bound to values
Binary ==
    \E n \in Bound \ {"y"}, m \in Bound, name \in OpsOf(kind) :
        /\ steps < MaxSteps
        /\ m # n
        /\ \E out \in {Number_binary(name, kind, buf[Ref(n)], buf[Ref(m)])} :
              SharedCall(name, n, m, [buf EXCEPT ![Ref(n)] = out.buf], out)
        /\ UNCHANGED object

Negate ==
    \E n \in Bound \ {"y"} :
        /\ steps < MaxSteps
        /\ \E out \in {Number_ineg(kind, buf[Ref(n)])} :
              SharedCall("ineg", n, NoValue, [buf EXCEPT ![Ref(n)] = out.buf], out)
        /\ UNCHANGED object

ShareNext == Clone \/ Add \/ Binary \/ Negate

SpecShare == ShareInit /\ [][ShareNext]_vars

\* the value of the name n is the same before and after the last call
Untouched(n) == buf[Ref(n)] = pre[Ref(n)]

\* C24: values share nothing: clone and add leave x and y as they were; an
\* in-place operation on the value they returned leaves x and y unchanged,
\* and one on x leaves that value unchanged; and every binary operation
\* (iadd, isub, imul, idiv, idiv_int, imod, gt, eq) leaves a distinct
\* right-hand operand's bytes unchanged, whether it returns or signals.
C24_NoSharing ==
    /\ op \in {"clone", "add"} => Untouched("x") /\ Untouched("y")
    /\ op \in BinaryOps \cup {"ineg"} =>
          \A n \in Bound \ {arg} : Untouched(n)

\* C24 witness: an iadd on the clone of x has changed the clone and left x
\* and y as they were
C24_Witness ==
    /\ op = "iadd"
    /\ arg = "c"
    /\ rhs = "y"
    /\ buf[Ref("c")] # pre[Ref("c")]
    /\ Untouched("x")
    /\ Untouched("y")


(***************************************************************************)
(* The failing calls: the Integer operations that can signal Overflow and  *)
(* from_token on tokens of every tag, on receivers of the three classes.   *)
(***************************************************************************)
FailInit == IntInit \/ TokInit

FailNext ==
    \/ Ineg \/ Iadd \/ Isub \/ IdivInt \/ Imod \/ IntFromInt
    \/ FromToken
    \/ Discard

SpecFail == FailInit /\ [][FailNext]_vars

\* the tags that the spec lets each class decode
TagsOf(t) ==
    IF t = "Integer" THEN {T_OCT, T_HEX, T_INT, T_UINT, T_BYTE} \cup (C_0 .. C_10)
    ELSE IF t = "Single" THEN {T_SINGLE}
    ELSE {T_DOUBLE}

OverflowOps == {"from_int", "ineg", "iadd", "isub", "idiv_int", "imod"}

\* C28: a failed operation leaves the receiver untouched: when an Integer
\* from_int, ineg, iadd, isub, idiv_int or imod signals Overflow, and when
\* from_token is given a token whose tag its class does not recognise (which
\* signals), the receiver's bytes after the call are its bytes before it.
C28_FailureLeavesReceiver ==
    /\ (kind = "Integer" /\ op \in OverflowOps /\ signal = "Overflow") =>
          buf = pre
    /\ (op = "from_token" /\ arg[1] \notin TagsOf(kind)) =>
          /\ signal = "ValueError"
          /\ buf = pre

\* C28 witness: 32767 + 1 has signalled Overflow and the receiver still
\* holds 32767
C28_Witness ==
    /\ IntCall("iadd")
    /\ signal = "Overflow"
    /\ IntA = 32767
    /\ IntB = 1
    /\ IntR = 32767


(***************************************************************************)
(* The commuting machine: add and imul on Floats whose mantissas have low  *)
(* bits set, so that the rounding quirks of both take part.                *)
(***************************************************************************)
\* n/d as idiv leaves it
QuotientOf(t, n, d) ==
    Float_idiv(t, FloatOf(t, PyInt(n)), FloatOf(t, PyInt(d))).buf

Fractions ==
    {<<1, 3>>, <<-1, 3>>, <<2, 3>>, <<1, 7>>, <<-1, 10>>, <<1, 10>>,
     <<100, 3>>, <<-1000, 7>>}

SingleFractions == {QuotientOf("Single", f[1], f[2]) : f \in Fractions}
DoubleFractions == {QuotientOf("Double", f[1], f[2]) : f \in Fractions}

CommuteSeeds(t) ==
    IF t = "Single" THEN SingleFractions \cup SingleSeeds
    ELSE DoubleFractions \cup DoubleSeeds

CommuteInit ==
    /\ kind \in FloatKinds
    /\ buf \in CommuteSeeds(kind)
    /\ op = "new"
    /\ rhs = NoValue
    /\ arg = 0
    /\ pre = buf
    /\ signal = "none"
    /\ carried = NoValue
    /\ result = "self"
    /\ object = NoValue
    /\ steps = 0
    /\ NoAudio

\* add: what iadd leaves in the clone is the value returned; the receiver
\* keeps its bytes
AddOut(t, b, out) ==
    IF out.sig = "none" THEN ReturnNew(b, Val(t, out.buf))
    ELSE Raise(b, out.sig, out.val)

Number_add(t, b, r) == AddOut(t, b, Float_iadd(t, b, r))

CommuteAdd ==
    /\ IsFloat
    /\ \E r \in CommuteSeeds(kind) :
          Called("add", Val(kind, r), 0, Number_add(kind, buf, r))

CommuteMul ==
    /\ IsFloat
    /\ \E r \in CommuteSeeds(kind) :
          Called("imul", Val(kind, r), 0, Float_imul(kind, buf, r))

CommuteNext == CommuteAdd \/ CommuteMul \/ Discard

SpecCommute == CommuteInit /\ [][CommuteNext]_vars

\* the last call, with outcome o of the same call on swapped operands, ended
\* as that one: the same bytes, or the same signal with the same value
SameOutcome(o, b) ==
    /\ o.sig = signal
    /\ signal = "none" => o.buf = b
    /\ signal # "none" => o.val = carried

\* C29: Float addition and multiplication commute at the byte level: a.add(b)
\* and b.add(a) end with the same bytes or both signal Overflow with the
\* same substitute value, and so do a.imul(b) and b.imul(a).
C29_Commutes ==
    /\ FloatCall("add") =>
          \A o \in {Float_iadd(kind, rhs.buf, pre)} : SameOutcome(o, object.buf)
    /\ FloatCall("imul") =>
          \A o \in {Float_imul(kind, rhs.buf, pre)} : SameOutcome(o, buf)

\* C29 witness: an add of two different values, the receiver the larger,
\* has returned a third
C29_Witness ==
    /\ FloatCall("add")
    /\ signal = "none"
    /\ pre[Len(pre)] > rhs.buf[Len(pre)]
    /\ object.buf \notin {pre, rhs.buf}


(***************************************************************************)
(* The audio plugin (interface/audio_portaudio.py).  The main thread runs  *)
(* _work and the PortAudio thread runs the stream callback                 *)
(* _get_next_chunk; neither takes a lock, so the two interleave between    *)
(* any two reads or writes of self._samples.  A sample is the number of    *)
(* its place in the order its voice generated it.  Sizes are scaled down:  *)
(* a callback takes FrameLength samples (1024 in the source), _work        *)
(* refills a buffer of at most MinSamples (2048) with a chunk of at most   *)
(* ChunkLength samples (4768).                                             *)
(***************************************************************************)
NumVoices == 2
FrameLength == 1
MinSamples == 2
ChunkLength == 2
\* samples generated per voice, and list objects created, in one run
MaxMade == 3
MaxLists == 3

VOICES == 1 .. NumVoices

\* the samples numbered from a + 1 to b
Run(a, b) == [i \in 1..(b - a) |-> a + i]

\* _samp[:length] and _samp[length:]
FirstOf(samp, length) == SubSeq(samp, 1, Min(length, Len(samp)))
RestOf(samp, length) == SubSeq(samp, length + 1, Len(samp))

WorkIdle == [pc |-> "idle", voice |-> 0, chunk |-> <<>>, joined |-> <<>>, list |-> 0]
CallbackIdle == [pc |-> "idle", voice |-> 0, list |-> 0, out |-> <<>>]

AudioInit ==
    /\ kind = "AudioPortAudio"
    /\ buf = <<>>
    /\ op = "new"
    /\ rhs = NoValue
    /\ arg = 0
    /\ pre = <<>>
    /\ signal = "none"
    /\ carried = NoValue
    /\ result = "self"
    /\ object = NoValue
    /\ steps = 0
    /\ lists = <<[v \in VOICES |-> <<>>]>>
    /\ samples = 1
    /\ made = [v \in VOICES |-> 0]
    /\ played = [v \in VOICES |-> <<>>]
    /\ work = WorkIdle
    /\ callback = CallbackIdle

numbers == <<kind, buf, op, rhs, arg, pre, signal, carried, result, object, steps>>

\* for voice in synthesiser.VOICES: the next voice, or the end of _work
NextVoice(w) ==
    IF w.voice = NumVoices THEN WorkIdle
    ELSE [WorkIdle EXCEPT !.pc = "test", !.voice = w.voice + 1]

\* the main loop calls _work
WorkCall ==
    /\ work.pc = "idle"
    /\ work' = [WorkIdle EXCEPT !.pc = "test", !.voice = 1]
    /\ UNCHANGED <<numbers, lists, samples, made, played, callback>>

\* if len(self._samples[voice]) > self._min_samples_buffer: continue
WorkTest ==
    /\ work.pc = "test"
    /\ work' = IF Len(lists[samples][work.voice]) > MinSamples
               THEN NextVoice(work)
               ELSE [work EXCEPT !.pc = "build"]
    /\ UNCHANGED <<numbers, lists, samples, made, played, callback>>

\* the while loop: the generators give a chunk of new samples, or None when
\* the voice has no tone left
WorkBuild ==
    /\ work.pc = "build"
    /\ \/ \E n \in 1 .. ChunkLength :
             /\ made[work.voice] + n <= MaxMade
             /\ made' = [made EXCEPT ![work.voice] = @ + n]
             /\ work' = [work EXCEPT !.pc = "join",
                                     !.chunk = Run(made[work.voice],
                                                   made[work.voice] + n)]
       \/ /\ work' = NextVoice(work)
          /\ UNCHANGED made
    /\ UNCHANGED <<numbers, lists, samples, played, callback>>

\* bytearray().join((self._samples[voice], current_chunk)), the right-hand
\* side of the assignment
WorkJoin ==
    /\ work.pc = "join"
    /\ work' = [work EXCEPT !.pc = "load",
                            !.joined = lists[samples][work.voice] \o work.chunk]
    /\ UNCHANGED <<numbers, lists, samples, made, played, callback>>

\* self._samples is read for the subscript store
WorkLoad ==
    /\ work.pc = "load"
    /\ work' = [work EXCEPT !.pc = "store", !.list = samples]
    /\ UNCHANGED <<numbers, lists, samples, made, played, callback>>

\* ...[voice] = the joined bytes, stored in the list that was read
WorkStore ==
    /\ work.pc = "store"
    /\ lists' = [lists EXCEPT ![work.list][work.voice] = work.joined]
    /\ work' = NextVoice(work)
    /\ UNCHANGED <<numbers, samples, made, played, callback>>

\* PortAudio calls _get_next_chunk: the generator over self._samples is made
CallbackCall ==
    /\ callback.pc = "idle"
    /\ Len(lists) < MaxLists
    /\ callback' = [CallbackIdle EXCEPT !.pc = "mix", !.voice = 1, !.list = samples]
    /\ UNCHANGED <<numbers, lists, samples, made, played, work>>

\* zip(*samples) takes the first length samples of the next voice; they are
\* mixed into what is played (the silence that pads them is not a sample)
CallbackMix ==
    /\ callback.pc = "mix"
    /\ played' = [played EXCEPT ![callback.voice] =
                     @ \o FirstOf(lists[callback.list][callback.voice], FrameLength)]
    /\ callback' = IF callback.voice = NumVoices
                   THEN [callback EXCEPT !.pc = "reload"]
                   ELSE [callback EXCEPT !.voice = @ + 1]
    /\ UNCHANGED <<numbers, lists, samples, made, work>>

\* self._samples is read again for the list comprehension
CallbackReload ==
    /\ callback.pc = "reload"
    /\ callback' = [callback EXCEPT !.pc = "cut", !.voice = 1, !.list = samples,
                                    !.out = <<>>]
    /\ UNCHANGED <<numbers, lists, samples, made, played, work>>

\* _samp[length:] for the next voice
CallbackCut ==
    /\ callback.pc = "cut"
    /\ callback' =
          [callback EXCEPT
              !.out = Append(@, RestOf(lists[callback.list][callback.voice],
                                     FrameLength)),
              !.pc = IF callback.voice = NumVoices THEN "assign" ELSE @,
              !.voice = IF callback.voice = NumVoices THEN @ ELSE @ + 1]
    /\ UNCHANGED <<numbers, lists, samples, made, played, work>>

\* self._samples = the new list
CallbackAssign ==
    /\ callback.pc = "assign"
    /\ lists' = Append(lists, callback.out)
    /\ samples' = Len(lists) + 1
    /\ callback' = CallbackIdle
    /\ UNCHANGED <<numbers, made, played, work>>

AudioNext ==
    \/ WorkCall \/ WorkTest \/ WorkBuild \/ WorkJoin \/ WorkLoad \/ WorkStore
    \/ CallbackCall \/ CallbackMix \/ CallbackReload \/ CallbackCut
    \/ CallbackAssign

SpecAudio == AudioInit /\ [][AudioNext]_vars

\* neither thread is inside its method
Quiet == work.pc = "idle" /\ callback.pc = "idle"

\* C30: under every interleaving of _work with the callback, each generated
\* sample of each voice is played exactly once and in generation order: what
\* has been played is the start of what was generated, without a gap or a
\* repeat, and between calls the samples played and those still buffered
\* are together all the samples generated (no appended chunk is lost).
C30_PlayedOnceInOrder ==
    \A v \in VOICES :
        /\ played[v] = Run(0, Len(played[v]))
        /\ Quiet => played[v] \o lists[samples][v] = Run(0, made[v])

====
